---------------------------- MODULE Spec2Model ----------------------------
(***************************************************************************)
(* Model of the FTDI MPSSE / JTAG decoder (jtag_decoder package).          *)
(*                                                                         *)
(*   Buffer            buffer.py        rewindable byte queue with frames  *)
(*   decode_commands   ftdi_decoder.py  MPSSE command decoder              *)
(*   pcap_json_reader  pcap_reader.py   fills the TX and RX buffers        *)
(*   JtagFsm           jtag_fsm.py      IEEE 1149.1 TAP controller         *)
(*   run_ftdi_command  jtag_sim.py      replays a command on the FSM       *)
(*                                                                         *)
(* Python's None is modelled by a sentinel (NoFrame, NoByte) for integers  *)
(* and by the record None / Some(v) for optional lists.                    *)
(***************************************************************************)
EXTENDS Integers, Sequences, FiniteSets, TLC

VARIABLES
    ftdi_bytes,     \* Buffer: the TX stream
    ftdi_replies,   \* Buffer: the RX stream
    frame_idx,      \* pcap_json_reader: index of the next capture record
    ftdi_commands,  \* decode_commands: commands decoded so far
    pc,             \* "load" | "decode" | "returned" | "raised" | "fsm"
    exc,            \* the exception raised out of decode_commands
    iter,           \* the last loop iteration of decode_commands
    state,          \* JtagFsm.state
    last_tdo,       \* JtagFsm.last_tdo
    pins_locked,    \* JtagFsm.pins_locked
    calls,          \* hooks the last FSM operation invoked on jtag_model
    result,         \* outcome of the last FSM operation
    reg,            \* a ShiftRegister driven on its own
    jtag_model,     \* ZynqJtagModel: the chain of the PS TAP and the DAP
    events,         \* method calls on reg / callbacks made by the models
    feed,           \* TDI bits still to be presented in the current scan
    mem_ap,         \* an ArmMemApModel driven on its own
    dap_output      \* DapOutputGroupers: pending lines, file written, APs

decvars == <<ftdi_bytes, ftdi_replies, frame_idx, ftdi_commands, pc, exc, iter>>
fsmvars == <<state, last_tdo, pins_locked, calls, result>>
devvars == <<reg, jtag_model, events, feed, mem_ap, dap_output>>
vars == <<ftdi_bytes, ftdi_replies, frame_idx, ftdi_commands, pc, exc, iter,
          state, last_tdo, pins_locked, calls, result,
          reg, jtag_model, events, feed, mem_ap, dap_output>>

(***************************************************************************)
(* Integer helpers: Python's &, | and << on non-negative integers, hex()   *)
(* and str().                                                              *)
(***************************************************************************)
RECURSIVE And(_, _)
And(a, b) ==
    IF a = 0 \/ b = 0 THEN 0
    ELSE (a % 2) * (b % 2) + 2 * And(a \div 2, b \div 2)

RECURSIVE Or(_, _)
Or(a, b) ==
    IF a = 0 THEN b
    ELSE IF b = 0 THEN a
    ELSE (IF a % 2 = 1 \/ b % 2 = 1 THEN 1 ELSE 0) + 2 * Or(a \div 2, b \div 2)

Shl(a, n) == a * (2 ^ n)

Bit(b, k) == (b \div (2 ^ k)) % 2

Zeros(n) == [i \in 1..n |-> 0]

Digit(d) ==
    CASE d = 0 -> "0" [] d = 1 -> "1" [] d = 2 -> "2" [] d = 3 -> "3"
      [] d = 4 -> "4" [] d = 5 -> "5" [] d = 6 -> "6" [] d = 7 -> "7"
      [] d = 8 -> "8" [] d = 9 -> "9" [] d = 10 -> "a" [] d = 11 -> "b"
      [] d = 12 -> "c" [] d = 13 -> "d" [] d = 14 -> "e" [] OTHER -> "f"

RECURSIVE Digits(_, _)
Digits(n, base) ==
    IF n < base THEN Digit(n)
    ELSE Digits(n \div base, base) \o Digit(n % base)

hex(n) == "0x" \o Digits(n, 16)
str(n) == Digits(n, 10)

(***************************************************************************)
(* Optional values.                                                        *)
(***************************************************************************)
None == [some |-> FALSE, v |-> <<>>]
Some(x) == [some |-> TRUE, v |-> x]
NoFrame == 0
NoByte == -1
NoLength == -1

Put(d, k, x) == [y \in (DOMAIN d) \cup {k} |-> IF y = k THEN x ELSE d[y]]
EmptyDict == [y \in {} |-> 0]

(***************************************************************************)
(* buffer.py: class Buffer.                                                *)
(***************************************************************************)
NewBuffer ==
    [buf |-> <<>>, insert_boundry |-> {}, pop_index |-> 0,
     frames |-> EmptyDict, begin_to_frame |-> EmptyDict, frame |-> NoFrame]

\* Buffer.__len__
BufLen(B) == Len(B.buf) - B.pop_index

\* An extend that records the position at which the batch began as the
\* insertion boundary.
ExtendBoundaryAtStart(B, iterable, frame) ==
    LET original_index == Len(B.buf)
        nbuf == B.buf \o iterable
    IN  [B EXCEPT
            !.buf = nbuf,
            !.insert_boundry = @ \cup {original_index},
            !.frames = Put(@, frame, <<original_index, Len(nbuf)>>),
            !.begin_to_frame = Put(@, original_index, frame)]

\* Buffer.extend(iterable, frame)
Extend(B, iterable, frame) ==
    LET original_index == Len(B.buf)
        nbuf == B.buf \o iterable
    IN  [B EXCEPT
            !.buf = nbuf,
            !.insert_boundry = @ \cup {Len(nbuf)},
            !.frames = IF frame # NoFrame
                       THEN Put(@, frame, <<original_index, Len(nbuf)>>)
                       ELSE @,
            !.begin_to_frame = IF frame # NoFrame
                               THEN Put(@, original_index, frame)
                               ELSE @]

\* The frame bookkeeping of Buffer.popleft: the frame after the update, or
\* the exception the dictionary lookups and assertions raise.
FrameStep(B) ==
    LET i == B.pop_index
        Enter(f0) ==
            \* self.frame = self.begin_to_frame[i]; b, e = self.frames[..]
            IF i \notin DOMAIN B.begin_to_frame
            THEN [exc |-> "KeyError", frame |-> f0]
            ELSE LET f == B.begin_to_frame[i]
                 IN  IF f \notin DOMAIN B.frames
                     THEN [exc |-> "KeyError", frame |-> f]
                     ELSE IF B.frames[f][1] # i
                     THEN [exc |-> "AssertionError", frame |-> f]
                     ELSE [exc |-> "none", frame |-> f]
    IN  IF i = 0 THEN Enter(B.frame)
        ELSE IF B.frame \notin DOMAIN B.frames
        THEN [exc |-> "KeyError", frame |-> B.frame]
        ELSE IF ~(i >= B.frames[B.frame][1])
        THEN [exc |-> "AssertionError", frame |-> B.frame]
        ELSE IF i >= B.frames[B.frame][2] THEN Enter(B.frame)
        ELSE [exc |-> "none", frame |-> B.frame]

\* A popleft that does not look at the length of the buffer.
PopleftUnchecked(B) ==
    [exc |-> "none", ret |-> NoByte, B |-> [B EXCEPT !.pop_index = @ + 1]]

\* popleft returning the byte under the cursor and leaving the cursor.
PopleftKeepsCursor(B) ==
    IF B.pop_index < Len(B.buf)
    THEN [exc |-> "none", ret |-> B.buf[B.pop_index + 1], B |-> B]
    ELSE [exc |-> "IndexError", ret |-> NoByte, B |-> B]

\* Buffer.popleft: [exc, ret, B]
Popleft(B) ==
    IF B.pop_index < Len(B.buf)
    THEN LET fs == FrameStep(B)
         IN  IF fs.exc # "none"
             THEN [exc |-> fs.exc, ret |-> NoByte,
                   B |-> [B EXCEPT !.frame = fs.frame]]
             ELSE [exc |-> "none", ret |-> B.buf[B.pop_index + 1],
                   B |-> [B EXCEPT !.frame = fs.frame,
                                   !.pop_index = @ + 1]]
    ELSE [exc |-> "IndexError", ret |-> NoByte, B |-> B]

\* The cursor at the end of the buffer, instead of on a batch boundary.
AtBoundryEnd(B) == B.pop_index = Len(B.buf)

\* Buffer.at_boundry
AtBoundry(B) == B.pop_index \in B.insert_boundry

\* The frame whose byte range contains the cursor, the frame kept by
\* popleft where there is none.
CurrentFrameOfCursor(B) ==
    LET here == {f \in DOMAIN B.frames :
                    B.frames[f][1] <= B.pop_index /\ B.pop_index < B.frames[f][2]}
    IN  IF here # {} THEN CHOOSE f \in here : TRUE ELSE B.frame

\* Buffer.current_frame
CurrentFrame(B) == B.frame

(***************************************************************************)
(* ftdi_decoder.py: FtdiCommandType and FtdiFlags (the enum values).       *)
(***************************************************************************)
UNKNOWN == 0
CLOCK_TDI == 16
CLOCK_TDO == 32
CLOCK_TMS == 64
SET_GPIO_LOW_BYTE == 128
GET_GPIO_LOW_BYTE == 129
SET_GPIO_HIGH_BYTE == 130
GET_GPIO_HIGH_BYTE == 131
DISABLE_LOOPBACK == 133
SET_DIVISOR == 134
FLUSH == 135
DISABLE_DIV_BY_5 == 138
DISABLE_RCLK == 151
CLOCK_NO_DATA == 143

NEG_EDGE_OUT == 1
BITWISE == 2
NEG_EDGE_IN == 4
LSB_FIRST == 8
TDI_HIGH == 128

\* The two opcodes decoded as UNKNOWN with a two byte reply.
OP_AA == 170
OP_AB == 171

\* FtdiCommand(type flags command_frame reply_frame opcode length data reply)
FtdiCommand(type, flags, command_frame, reply_frame, opcode, length, data, reply) ==
    [type |-> type, flags |-> flags, command_frame |-> command_frame,
     reply_frame |-> reply_frame, opcode |-> opcode, length |-> length,
     data |-> data, reply |-> reply]

\* An exception: DecodeError(msg, commands, last_byte), or a builtin one.
NoExc == [kind |-> "none", msg |-> "", commands |-> None, last_byte |-> NoByte]
DecodeError(msg, commands, last_byte) ==
    [kind |-> "DecodeError", msg |-> msg, commands |-> commands,
     last_byte |-> last_byte]
Builtin(kind) ==
    [kind |-> kind, msg |-> "", commands |-> None, last_byte |-> NoByte]

\* get_write_flags(byte): the flags of the opcode, in the order tested.
get_write_flags(byte) ==
    SelectSeq(<<NEG_EDGE_OUT, BITWISE, NEG_EDGE_IN, LSB_FIRST>>,
              LAMBDA flag : And(byte, flag) # 0)

\* The state of a decode_commands call in progress: the exception raised
\* (NoExc while running), the two buffers, the command list, and the
\* locals of the command being decoded: vals, the bytes popped from the TX
\* buffer for the field being read, length, and reply, the bytes popped
\* from the RX buffer (None until a reply is read).
NewDecode(tx, rx, cmds) ==
    [exc |-> NoExc, tx |-> tx, rx |-> rx, cmds |-> cmds,
     vals |-> <<>>, length |-> NoLength, reply |-> None]

Failed(D) == D.exc.kind # "none"
Raise(D, e) == [D EXCEPT !.exc = e]

\* ftdi_bytes.popleft(), p being Popleft(D.tx)
TakeTx(D, p) ==
    IF p.exc # "none"
    THEN [D EXCEPT !.exc = Builtin(p.exc), !.tx = p.B]
    ELSE [D EXCEPT !.tx = p.B, !.vals = Append(@, p.ret)]

\* ftdi_replies.popleft(), p being Popleft(D.rx)
TakeRx(D, p) ==
    IF p.exc # "none"
    THEN [D EXCEPT !.exc = Builtin(p.exc), !.rx = p.B]
    ELSE [D EXCEPT !.rx = p.B, !.reply = Some(Append(@.v, p.ret))]

\* n times ftdi_bytes.popleft(), stopping at the first exception (the n
\* pops done as two halves, which keeps the evaluation shallow)
RECURSIVE TxPop(_, _)
TxPop(D, n) ==
    IF n = 0 \/ Failed(D) THEN D
    ELSE IF n = 1 THEN TakeTx(D, Popleft(D.tx))
    ELSE TxPop(TxPop(D, n \div 2), n - n \div 2)

\* n times ftdi_replies.popleft(), likewise
RECURSIVE RxPopLoop(_, _)
RxPopLoop(D, n) ==
    IF n = 0 \/ Failed(D) THEN D
    ELSE IF n = 1 THEN TakeRx(D, Popleft(D.rx))
    ELSE RxPopLoop(RxPopLoop(D, n \div 2), n - n \div 2)

\* reply = [ftdi_replies.popleft() for _ in range(n)]
RxPop(D, n) ==
    IF Failed(D) THEN D ELSE RxPopLoop([D EXCEPT !.reply = Some(<<>>)], n)

\* The 16 bit length taken as the byte count itself, without the + 1.
Length16Raw(D) ==
    IF Failed(D) THEN D
    ELSE [D EXCEPT !.length = Or(D.vals[1], Shl(D.vals[2], 8)), !.vals = <<>>]

\* length = popleft(); length |= popleft() << 8; length += 1
\* (D after the two pops)
Length16(D) ==
    IF Failed(D) THEN D
    ELSE [D EXCEPT !.length = Or(D.vals[1], Shl(D.vals[2], 8)) + 1,
                   !.vals = <<>>]

\* A limit of eight bits, the raw length byte 7 being accepted.
BitwiseLimitEight == 7 + 1

\* The largest bit count of a bitwise command.
BitwiseLimit == 7

\* if byte & CLOCK_TDO: reply = [ftdi_replies.popleft() for _ in range(n)]
ReplyOf(byte, D, n) ==
    IF Failed(D) THEN D
    ELSE IF And(byte, CLOCK_TDO) # 0 THEN RxPop(D, n)
    ELSE D

\* read_data, bitwise write, after number_of_bits - 1 was popped
ReadBits(byte, D) ==
    IF Failed(D) THEN D
    ELSE IF D.vals[1] + 1 > BitwiseLimit
    THEN Raise(D, DecodeError(
                     "Bitwise clocking should only clock 7 or less bits, found "
                         \o str(D.vals[1] + 1),
                     None, byte))
    ELSE ReplyOf(byte,
                 TxPop([D EXCEPT !.length = D.vals[1] + 1, !.vals = <<>>], 1),
                 1)

\* read_data, byte write, after the length was read
ReadBytes(byte, D) ==
    IF Failed(D) THEN D
    ELSE ReplyOf(byte, TxPop(D, D.length), D.length)

\* read_data(byte, ftdi_bytes, ftdi_replies): D.length, D.vals (data) and
\* D.reply are what it returns.
read_data(byte, D) ==
    IF And(byte, BITWISE) # 0
    THEN ReadBits(byte, TxPop(D, 1))
    ELSE ReadBytes(byte, Length16(TxPop(D, 2)))

\* add_command: the command list with the new command appended, stamped
\* with the current frames of the two buffers.
add_command(D, command_type, command_opcode, flags, length, data, reply) ==
    LET reply_frame == IF reply.some THEN CurrentFrame(D.rx) ELSE NoFrame
    IN  [D EXCEPT !.cmds =
            Append(@, FtdiCommand(command_type, flags, CurrentFrame(D.tx),
                                  reply_frame, command_opcode, length, data,
                                  reply))]

\* add_command(type, byte)
EmitPlain(type, byte, D) ==
    IF Failed(D) THEN D
    ELSE add_command(D, type, byte, None, NoLength, None, None)

\* add_command(type, byte, reply=reply)
EmitReply(type, byte, D) ==
    IF Failed(D) THEN D
    ELSE add_command(D, type, byte, None, NoLength, None, D.reply)

\* add_command(type, byte, data=data)
EmitData(type, byte, D) ==
    IF Failed(D) THEN D
    ELSE add_command(D, type, byte, None, NoLength, Some(D.vals), None)

\* add_command(type, byte, flags, length, data, reply) after read_data
EmitClocked(type, byte, D) ==
    IF Failed(D) THEN D
    ELSE add_command(D, type, byte, Some(get_write_flags(byte)), D.length,
                     Some(D.vals), D.reply)

\* add_command(CLOCK_TDO, byte, flags, length, reply=reply)
EmitTdo(byte, D) ==
    IF Failed(D) THEN D
    ELSE add_command(D, CLOCK_TDO, byte, Some(get_write_flags(byte)), D.length,
                     None, D.reply)

\* The CLOCK_TDO branch, bitwise, after length - 1 was popped
TdoBits(byte, D) ==
    IF Failed(D) THEN D
    ELSE IF D.vals[1] + 1 > BitwiseLimit
    THEN Raise(D, DecodeError(
                     "Bitwise clocking should only clock 7 or less bits, found "
                         \o str(D.vals[1] + 1),
                     Some(D.cmds), byte))
    ELSE EmitTdo(byte,
                 RxPop([D EXCEPT !.length = D.vals[1] + 1, !.vals = <<>>], 1))

\* The CLOCK_TDO branch, bytes, after the length was read
TdoBytes(byte, D) ==
    IF Failed(D) THEN D ELSE EmitTdo(byte, RxPop(D, D.length))

\* The CLOCK_NO_DATA branch after the length was read: flags = []
EmitNoData(byte, D) ==
    IF Failed(D) THEN D
    ELSE add_command(D, CLOCK_NO_DATA, byte, Some(<<>>), D.length, None, None)

\* The SET_DIVISOR branch: data = popleft(); data |= popleft() << 8
EmitDivisor(byte, D) ==
    IF Failed(D) THEN D
    ELSE add_command(D, SET_DIVISOR, byte, None, NoLength,
                     Some(<<Or(D.vals[1], Shl(D.vals[2], 8))>>), None)

\* A chain that tests the TDI, TMS and TDO bits before any whole opcode.
DispatchBitsFirst(byte, D) ==
    IF And(byte, CLOCK_TDI) # 0
    THEN EmitClocked(CLOCK_TDI, byte, read_data(byte, D))
    ELSE IF And(byte, CLOCK_TMS) # 0
    THEN EmitClocked(CLOCK_TMS, byte, read_data(byte, D))
    ELSE IF And(byte, CLOCK_TDO) # 0
    THEN IF And(byte, BITWISE) # 0 THEN TdoBits(byte, TxPop(D, 1))
         ELSE TdoBytes(byte, Length16(TxPop(D, 2)))
    ELSE IF byte = CLOCK_NO_DATA THEN EmitNoData(byte, Length16(TxPop(D, 2)))
    ELSE IF byte \in {SET_GPIO_LOW_BYTE, SET_GPIO_HIGH_BYTE}
    THEN EmitData(byte, byte, TxPop(D, 2))
    ELSE IF byte \in {GET_GPIO_LOW_BYTE, GET_GPIO_HIGH_BYTE}
    THEN EmitReply(byte, byte, RxPop(D, 1))
    ELSE IF byte = SET_DIVISOR THEN EmitDivisor(byte, TxPop(D, 2))
    ELSE IF byte \in {DISABLE_LOOPBACK, FLUSH, DISABLE_DIV_BY_5}
    THEN EmitPlain(byte, byte, D)
    ELSE Raise(D, DecodeError("Unknown byte " \o hex(byte), Some(D.cmds), byte))

\* The if/elif chain of decode_commands on the opcode byte.
Dispatch(byte, D) ==
    IF byte = OP_AA THEN EmitReply(UNKNOWN, byte, RxPop(D, 2))
    ELSE IF byte = OP_AB THEN EmitReply(UNKNOWN, byte, RxPop(D, 2))
    ELSE IF byte = DISABLE_RCLK THEN EmitPlain(DISABLE_RCLK, byte, D)
    ELSE IF And(byte, CLOCK_TMS) # 0
    THEN IF And(byte, CLOCK_TDI) # 0
         THEN Raise(D, DecodeError("When clocking TMS, cannot clock TDI?",
                                   Some(D.cmds), byte))
         ELSE EmitClocked(CLOCK_TMS, byte, read_data(byte, D))
    ELSE IF And(byte, CLOCK_TDI) # 0
    THEN IF And(byte, CLOCK_TMS) # 0
         THEN Raise(D, DecodeError("When clocking TDI, cannot clock TMS?",
                                   Some(D.cmds), byte))
         ELSE EmitClocked(CLOCK_TDI, byte, read_data(byte, D))
    ELSE IF And(byte, CLOCK_TDO) # 0
    THEN IF And(byte, CLOCK_TMS) # 0 \/ And(byte, CLOCK_TDI) # 0
         THEN Raise(D, Builtin("AssertionError"))
         ELSE IF And(byte, BITWISE) # 0 THEN TdoBits(byte, TxPop(D, 1))
         ELSE TdoBytes(byte, Length16(TxPop(D, 2)))
    ELSE IF byte = CLOCK_NO_DATA THEN EmitNoData(byte, Length16(TxPop(D, 2)))
    ELSE IF byte = SET_GPIO_LOW_BYTE
    THEN EmitData(SET_GPIO_LOW_BYTE, byte, TxPop(D, 2))
    ELSE IF byte = GET_GPIO_LOW_BYTE
    THEN EmitReply(GET_GPIO_LOW_BYTE, byte, RxPop(D, 1))
    ELSE IF byte = SET_GPIO_HIGH_BYTE
    THEN EmitData(SET_GPIO_HIGH_BYTE, byte, TxPop(D, 2))
    ELSE IF byte = GET_GPIO_HIGH_BYTE
    THEN EmitReply(GET_GPIO_HIGH_BYTE, byte, RxPop(D, 1))
    ELSE IF byte = DISABLE_LOOPBACK THEN EmitPlain(DISABLE_LOOPBACK, byte, D)
    ELSE IF byte = SET_DIVISOR THEN EmitDivisor(byte, TxPop(D, 2))
    ELSE IF byte = FLUSH
    THEN IF ~AtBoundry(D.rx)
         THEN Raise(D, DecodeError("Should have a RX boundry in reply data?",
                                   Some(D.cmds), byte))
         ELSE EmitPlain(FLUSH, byte, D)
    ELSE IF byte = DISABLE_DIV_BY_5 THEN EmitPlain(DISABLE_DIV_BY_5, byte, D)
    ELSE Raise(D, DecodeError("Unknown byte " \o hex(byte), Some(D.cmds), byte))

\* byte = ftdi_bytes.popleft(), then the chain (D after the pop)
Opcode(D) ==
    IF Failed(D) THEN D ELSE Dispatch(D.vals[1], [D EXCEPT !.vals = <<>>])

\* One iteration of the while loop of decode_commands, entered with
\* len(ftdi_bytes) > 0.
Iteration(tx, rx, cmds) == Opcode(TxPop(NewDecode(tx, rx, cmds), 1))

\* A check after the loop that lets leftover RX data pass.
LeftoverIgnored(rx, cmds) == NoExc

\* The check after the loop: leftover RX data is a DecodeError.
Leftover(rx, cmds) ==
    IF BufLen(rx) # 0
    THEN DecodeError("Leftover RX data, leftover = " \o str(BufLen(rx)) \o ".",
                     Some(cmds), NoByte)
    ELSE NoExc

(***************************************************************************)
(* decode_commands as a process: one action per loop iteration and one for *)
(* the code after the loop.  iter records the iteration just executed: its *)
(* number, the opcode byte and the two cursors before it.                  *)
(***************************************************************************)
NoIter == [n |-> 0, byte |-> NoByte, tx0 |-> 0, rx0 |-> 0]

\* The variables of decode_commands after an iteration that ended in D.
Decoded(D) ==
    /\ ftdi_bytes' = D.tx
    /\ ftdi_replies' = D.rx
    /\ ftdi_commands' = D.cmds
    /\ exc' = D.exc
    /\ pc' = IF Failed(D) THEN "raised" ELSE "decode"

DecodeStep ==
    /\ pc = "decode"
    /\ BufLen(ftdi_bytes) # 0
    /\ Decoded(Iteration(ftdi_bytes, ftdi_replies, ftdi_commands))
    /\ iter' = [n |-> iter.n + 1,
                byte |-> ftdi_bytes.buf[ftdi_bytes.pop_index + 1],
                tx0 |-> ftdi_bytes.pop_index,
                rx0 |-> ftdi_replies.pop_index]
    /\ UNCHANGED <<frame_idx, fsmvars>>
    /\ UNCHANGED devvars

DecodeEnd ==
    /\ pc = "decode"
    /\ BufLen(ftdi_bytes) = 0
    /\ exc' = Leftover(ftdi_replies, ftdi_commands)
    /\ pc' = IF exc'.kind = "none" THEN "returned" ELSE "raised"
    /\ UNCHANGED <<ftdi_bytes, ftdi_replies, ftdi_commands, frame_idx, iter,
                   fsmvars>>
    /\ UNCHANGED devvars

(***************************************************************************)
(* pcap_reader.py: pcap_json_reader.                                       *)
(***************************************************************************)
FTDI_MAX_PACKET_SIZE == 512

\* the loop without the skip of the two modem status bytes
RECURSIVE StripLoopNoStatus(_, _, _)
StripLoopNoStatus(in_data, idx, out_data) ==
    IF Len(in_data) - idx >= FTDI_MAX_PACKET_SIZE
    THEN StripLoopNoStatus(in_data, idx + FTDI_MAX_PACKET_SIZE,
                           out_data \o SubSeq(in_data, idx + 1,
                                              idx + FTDI_MAX_PACKET_SIZE))
    ELSE [idx |-> idx, out_data |-> out_data]

\* The while loop over the RX payload: [idx, out_data]
RECURSIVE StripLoop(_, _, _)
StripLoop(in_data, idx, out_data) ==
    IF Len(in_data) - idx >= FTDI_MAX_PACKET_SIZE
    THEN StripLoop(in_data, idx + FTDI_MAX_PACKET_SIZE + 2,
                   out_data \o SubSeq(in_data, idx + 1, idx + FTDI_MAX_PACKET_SIZE))
    ELSE [idx |-> idx, out_data |-> out_data]

\* a byte that ends the payload inside the modem status kept as data
RxOutDataKeepsLast(in_data) ==
    LET l == StripLoop(in_data, 0, <<>>)
    IN  IF l.idx < Len(in_data)
        THEN l.out_data \o SubSeq(in_data, l.idx + 1, Len(in_data))
        ELSE IF l.idx = Len(in_data) + 1
        THEN Append(l.out_data, in_data[Len(in_data)])
        ELSE l.out_data

\* out_data of one RX payload: the modem status bytes removed.
RxOutData(in_data) ==
    LET l == StripLoop(in_data, 0, <<>>)
    IN  IF l.idx < Len(in_data)
        THEN l.out_data \o SubSeq(in_data, l.idx + 1, Len(in_data))
        ELSE l.out_data

\* Bound: the number of capture records read.
MaxRecords == 2

\* The payloads a capture record may carry (None: the key is absent).
TxPayloads ==
    { <<135>>,                  \* FLUSH
      <<135, 85>>,              \* FLUSH, then 0x55
      <<128, 8, 11>>,           \* SET_GPIO_LOW(0x08, 0x0B)
      <<128, 8>>,               \* SET_GPIO_LOW cut short
      <<107, 4, 31>>,           \* 0x6B: CLOCK_TMS, bitwise, reading, 5 bits
      <<75, 7, 0>>,             \* 0x4B: CLOCK_TMS, bitwise, raw length 7
      <<27, 7, 0>>,             \* 0x1B: CLOCK_TDI, bitwise, raw length 7
      <<42, 7>>,                \* 0x2A: CLOCK_TDO, bitwise, raw length 7
      <<57, 1, 0, 165, 90>>,    \* 0x39: CLOCK_TDI, bytes, reading, 2 bytes
      <<129>>,                  \* GET_GPIO_LOW
      <<0>> }                   \* not an opcode
RxPayloads == { <<17>>, <<34, 51>> }

\* One iteration of the loop over the capture records.
ReadRecord(is_ftdift, tx_data, rx_data) ==
    /\ pc = "load"
    /\ frame_idx < MaxRecords
    /\ frame_idx' = frame_idx + 1
    /\ ftdi_bytes' =
          IF is_ftdift /\ tx_data.some
          THEN Extend(ftdi_bytes, tx_data.v, frame_idx + 1)
          ELSE ftdi_bytes
    /\ ftdi_replies' =
          IF is_ftdift /\ rx_data.some
          THEN Extend(ftdi_replies, RxOutData(rx_data.v), frame_idx + 1)
          ELSE ftdi_replies
    /\ UNCHANGED <<ftdi_commands, pc, exc, iter, fsmvars>>
    /\ UNCHANGED devvars

\* The capture is read: decode_commands(ftdi_bytes, ftdi_replies) is called.
StartDecode ==
    /\ pc = "load"
    /\ pc' = "decode"
    /\ ftdi_commands' = <<>>
    /\ UNCHANGED <<ftdi_bytes, ftdi_replies, frame_idx, exc, iter, fsmvars>>
    /\ UNCHANGED devvars

(***************************************************************************)
(* jtag_fsm.py: JtagState, JTAG_STATE_TABLE and JtagFsm.                   *)
(***************************************************************************)
JtagState ==
    {"RESET", "RUN_IDLE", "DRSELECT", "DRCAPTURE", "DRSHIFT", "DREXIT1",
     "DRPAUSE", "DREXIT2", "DRUPDATE", "IRSELECT", "IRCAPTURE", "IRSHIFT",
     "IREXIT1", "IRPAUSE", "IREXIT2", "IRUPDATE"}

BIT == {0, 1}

JTAG_STATE_TABLE ==
       (<<"RESET", 1>> :> "RESET")
    @@ (<<"RESET", 0>> :> "RUN_IDLE")
    @@ (<<"RUN_IDLE", 0>> :> "RUN_IDLE")
    @@ (<<"RUN_IDLE", 1>> :> "DRSELECT")
    \* DR chain
    @@ (<<"DRSELECT", 0>> :> "DRCAPTURE")
    @@ (<<"DRSELECT", 1>> :> "IRSELECT")
    @@ (<<"DRCAPTURE", 0>> :> "DRSHIFT")
    @@ (<<"DRCAPTURE", 1>> :> "DREXIT1")
    @@ (<<"DRSHIFT", 0>> :> "DRSHIFT")
    @@ (<<"DRSHIFT", 1>> :> "DREXIT1")
    @@ (<<"DREXIT1", 0>> :> "DRPAUSE")
    @@ (<<"DREXIT1", 1>> :> "DRUPDATE")
    @@ (<<"DRPAUSE", 0>> :> "DRPAUSE")
    @@ (<<"DRPAUSE", 1>> :> "DREXIT2")
    @@ (<<"DREXIT2", 0>> :> "DRSHIFT")
    @@ (<<"DREXIT2", 1>> :> "DRUPDATE")
    @@ (<<"DRUPDATE", 0>> :> "RUN_IDLE")
    @@ (<<"DRUPDATE", 1>> :> "DRSELECT")
    \* IR chain
    @@ (<<"IRSELECT", 0>> :> "IRCAPTURE")
    @@ (<<"IRSELECT", 1>> :> "RESET")
    @@ (<<"IRCAPTURE", 0>> :> "IRSHIFT")
    @@ (<<"IRCAPTURE", 1>> :> "IREXIT1")
    @@ (<<"IRSHIFT", 0>> :> "IRSHIFT")
    @@ (<<"IRSHIFT", 1>> :> "IREXIT1")
    @@ (<<"IREXIT1", 0>> :> "IRPAUSE")
    @@ (<<"IREXIT1", 1>> :> "IRUPDATE")
    @@ (<<"IRPAUSE", 0>> :> "IRPAUSE")
    @@ (<<"IRPAUSE", 1>> :> "IREXIT2")
    @@ (<<"IREXIT2", 0>> :> "IRSHIFT")
    @@ (<<"IREXIT2", 1>> :> "IRUPDATE")
    @@ (<<"IRUPDATE", 0>> :> "RUN_IDLE")
    @@ (<<"IRUPDATE", 1>> :> "DRSELECT")

\* A call made on jtag_model: the hook, its tdi and what it returned (the
\* shift hooks only).
NoArg == -1
Call(hook, tdi, ret) == [hook |-> hook, tdi |-> tdi, ret |-> ret]

\* The hooks invoked as the docstring of JtagFsm words them: update_dr and
\* update_ir "when DRSHIFT / IRSHIFT is entered", after the shift hook.
HookCallsDocstring(s, tdi, tdo) ==
    IF s = "RESET" THEN <<Call("reset", NoArg, NoArg)>>
    ELSE IF s = "RUN_IDLE" THEN <<Call("run_idle", NoArg, NoArg)>>
    ELSE IF s = "DRSHIFT"
    THEN <<Call("shift_dr", tdi, tdo), Call("update_dr", NoArg, NoArg)>>
    ELSE IF s = "DRCAPTURE" THEN <<Call("capture_dr", NoArg, NoArg)>>
    ELSE IF s = "IRSHIFT"
    THEN <<Call("shift_ir", tdi, tdo), Call("update_ir", NoArg, NoArg)>>
    ELSE IF s = "IRCAPTURE" THEN <<Call("capture_ir", NoArg, NoArg)>>
    ELSE <<>>

\* The hooks with no hook for RESET: reset on the entry of the state only.
HookCallsNoReset(s, tdi, tdo) ==
    IF s = "RUN_IDLE" THEN <<Call("run_idle", NoArg, NoArg)>>
    ELSE IF s = "DRSHIFT" THEN <<Call("shift_dr", tdi, tdo)>>
    ELSE IF s = "DRUPDATE" THEN <<Call("update_dr", NoArg, NoArg)>>
    ELSE IF s = "DRCAPTURE" THEN <<Call("capture_dr", NoArg, NoArg)>>
    ELSE IF s = "IRSHIFT" THEN <<Call("shift_ir", tdi, tdo)>>
    ELSE IF s = "IRUPDATE" THEN <<Call("update_ir", NoArg, NoArg)>>
    ELSE IF s = "IRCAPTURE" THEN <<Call("capture_ir", NoArg, NoArg)>>
    ELSE <<>>

\* The hook JtagFsm.clock invokes in state s (the if/elif chain), as a
\* sequence of calls: empty in the states with no hook.  tdo is what a
\* shift hook returns.
HookCalls(s, tdi, tdo) ==
    IF s = "RESET" THEN <<Call("reset", NoArg, NoArg)>>
    ELSE IF s = "RUN_IDLE" THEN <<Call("run_idle", NoArg, NoArg)>>
    ELSE IF s = "DRSHIFT" THEN <<Call("shift_dr", tdi, tdo)>>
    ELSE IF s = "DRUPDATE" THEN <<Call("update_dr", NoArg, NoArg)>>
    ELSE IF s = "DRCAPTURE" THEN <<Call("capture_dr", NoArg, NoArg)>>
    ELSE IF s = "IRSHIFT" THEN <<Call("shift_ir", tdi, tdo)>>
    ELSE IF s = "IRUPDATE" THEN <<Call("update_ir", NoArg, NoArg)>>
    ELSE IF s = "IRCAPTURE" THEN <<Call("capture_ir", NoArg, NoArg)>>
    ELSE <<>>

\* The states whose hook's return value is assigned to last_tdo.
StoresTdo(s) == s = "DRSHIFT" \/ s = "IRSHIFT"

\* JtagFsm.__init__
NewFsm == [state |-> "RESET", last_tdo |-> 1, pins_locked |-> TRUE]

\* clock with the table indexed by tdi instead of tms.
clock_tdi_lookup(f, tdi, tms, tdo) ==
    IF f.pins_locked
    THEN [exc |-> "AssertionError", fsm |-> f, calls |-> <<>>, ret |-> NoArg]
    ELSE [exc |-> "none",
          fsm |-> [f EXCEPT !.state = JTAG_STATE_TABLE[<<f.state, tdi>>],
                            !.last_tdo = IF StoresTdo(f.state) THEN tdo ELSE @],
          calls |-> HookCalls(f.state, tdi, tdo),
          ret |-> IF StoresTdo(f.state) THEN tdo ELSE f.last_tdo]

\* JtagFsm.clock(tdi, tms) on the FSM record f; tdo is what jtag_model's
\* shift hook returns if it is called.  [exc, fsm, calls, ret]
clock(f, tdi, tms, tdo) ==
    IF f.pins_locked
    THEN [exc |-> "AssertionError", fsm |-> f, calls |-> <<>>, ret |-> NoArg]
    ELSE IF <<f.state, tms>> \notin DOMAIN JTAG_STATE_TABLE
    THEN [exc |-> "KeyError", fsm |-> f, calls |-> <<>>, ret |-> NoArg]
    ELSE [exc |-> "none",
          fsm |-> [f EXCEPT !.state = JTAG_STATE_TABLE[<<f.state, tms>>],
                            !.last_tdo = IF StoresTdo(f.state) THEN tdo ELSE @],
          calls |-> HookCalls(f.state, tdi, tdo),
          ret |-> IF StoresTdo(f.state) THEN tdo ELSE f.last_tdo]

\* JtagFsm.lock / JtagFsm.unlock
lock(f) == [f EXCEPT !.pins_locked = TRUE]
unlock(f) == [f EXCEPT !.pins_locked = FALSE]

Fsm == [state |-> state, last_tdo |-> last_tdo, pins_locked |-> pins_locked]
SetFsm(f) ==
    /\ state' = f.state
    /\ last_tdo' = f.last_tdo
    /\ pins_locked' = f.pins_locked

\* FtdiCommand with every field None: the command of an FSM operation that
\* is not run_ftdi_command.
NoCommand == FtdiCommand(NoArg, None, NoFrame, NoFrame, NoByte, NoLength, None, None)

\* result of an FSM operation: what was called, with what, in which state
\* of the FSM, and the outcome (clock's return value in ret,
\* run_ftdi_command's in reply).
NoResult == [op |-> "none", exc |-> "none", tdi |-> NoArg, tms |-> NoArg,
             ret |-> NoArg, from |-> "RESET", locked |-> TRUE,
             command |-> NoCommand, reply |-> None]

Clock(tdi, tms, tdo) ==
    /\ pc = "fsm"
    /\ LET r == clock(Fsm, tdi, tms, tdo)
       IN  /\ SetFsm(r.fsm)
           /\ calls' = r.calls
           /\ result' = [NoResult EXCEPT !.op = "clock", !.exc = r.exc,
                             !.tdi = tdi, !.tms = tms, !.ret = r.ret,
                             !.from = state, !.locked = pins_locked]
    /\ UNCHANGED decvars
    /\ UNCHANGED devvars

Lock ==
    /\ pc = "fsm"
    /\ SetFsm(lock(Fsm))
    /\ calls' = <<>>
    /\ result' = [NoResult EXCEPT !.op = "lock", !.from = state,
                                  !.locked = pins_locked]
    /\ UNCHANGED decvars
    /\ UNCHANGED devvars

Unlock ==
    /\ pc = "fsm"
    /\ SetFsm(unlock(Fsm))
    /\ calls' = <<>>
    /\ result' = [NoResult EXCEPT !.op = "unlock", !.from = state,
                                  !.locked = pins_locked]
    /\ UNCHANGED decvars
    /\ UNCHANGED devvars

(***************************************************************************)
(* utils.py: bits_to_bytes, and jtag_sim.py: run_ftdi_command.             *)
(***************************************************************************)
\* bits_to_bytes(in_bits): 8 bits per byte, LSB first, a final partial byte.
RECURSIVE PackByte(_, _)
PackByte(bits, bit_offset) ==
    IF bits = <<>> THEN 0
    ELSE (IF Head(bits) # 0 THEN Shl(1, bit_offset) ELSE 0)
         + PackByte(Tail(bits), bit_offset + 1)

\* bits_to_bytes without the final partial byte.
RECURSIVE bits_to_bytes_whole(_)
bits_to_bytes_whole(in_bits) ==
    IF Len(in_bits) < 8 THEN <<>>
    ELSE <<PackByte(SubSeq(in_bits, 1, 8), 0)>>
         \o bits_to_bytes_whole(SubSeq(in_bits, 9, Len(in_bits)))

RECURSIVE bits_to_bytes(_)
bits_to_bytes(in_bits) ==
    IF Len(in_bits) = 0 THEN <<>>
    ELSE IF Len(in_bits) <= 8 THEN <<PackByte(in_bits, 0)>>
    ELSE <<PackByte(SubSeq(in_bits, 1, 8), 0)>>
         \o bits_to_bytes(SubSeq(in_bits, 9, Len(in_bits)))

\* Pin numbers of the low GPIO byte.
TCK == 0
TDI == 1
TDO == 2
TMS == 3

PinBit(byte, bit) == IF And(byte, Shl(1, bit)) # 0 THEN 1 ELSE 0

\* flag in command.flags
InFlags(command, flag) ==
    \E i \in 1..Len(command.flags.v) : command.flags.v[i] = flag

\* What jtag_model's shift hooks return during one command: a bit pattern,
\* repeated; the k-th clock of the command gets TdoAt(src, k).
TdoSources == { <<0>>, <<1>>, <<0, 1>> }
TdoAt(src, k) == src[((k - 1) % Len(src)) + 1]

\* The state of a clocking loop of run_ftdi_command: the exception raised,
\* the FSM, the calls made on jtag_model, and the output list.
NewLoop(f) == [exc |-> "none", fsm |-> f, calls |-> <<>>, output |-> <<>>]

\* tdo = jtag_fsm.clock(tdi, tms); if reading: output.append(tdo)
\* (r being what clock did)
Clocked(L, r, reading) ==
    IF r.exc # "none" THEN [L EXCEPT !.exc = r.exc]
    ELSE [L EXCEPT !.fsm = r.fsm, !.calls = @ \o r.calls,
                   !.output = IF reading THEN Append(@, r.ret) ELSE @]

\* The clocking loops: jtag_fsm.clock(tdi, tms) for each <<tdi, tms>> of
\* pins in turn, from the k-th.
RECURSIVE ClockLoop(_, _, _, _, _)
ClockLoop(L, pins, k, reading, src) ==
    IF k > Len(pins) \/ L.exc # "none" THEN L
    ELSE ClockLoop(Clocked(L, clock(L.fsm, pins[k][1], pins[k][2],
                                    TdoAt(src, k)), reading),
                   pins, k + 1, reading, src)

\* return tuple(bits_to_bytes(output)), or the exception
Returned(L) ==
    [exc |-> L.exc, fsm |-> L.fsm, calls |-> L.calls,
     reply |-> IF L.exc # "none" THEN None ELSE Some(bits_to_bytes(L.output))]

\* seven clocks for each byte
BytePinsSevenBits(data, tms) ==
    [k \in 1..(7 * Len(data)) |->
        <<PinBit(data[((k - 1) \div 7) + 1], (k - 1) % 7), tms>>]

\* for byte in data: for bit in range(8): <<tdi, tms>> of each clock
BytePins(data, tms) ==
    [k \in 1..(8 * Len(data)) |->
        <<PinBit(data[((k - 1) \div 8) + 1], (k - 1) % 8), tms>>]

\* SET_GPIO_LOW with direction 0 locking in any state.
LockAlways(f) == TRUE

\* assert jtag_fsm.get_state() in [JtagState.RUN_IDLE, JtagState.RESET]
LockAllowed(f) == f.state \in {"RUN_IDLE", "RESET"}

\* run_ftdi_command(command, jtag_fsm): [exc, fsm, calls, reply]
run_ftdi_command(command, f, src) ==
    LET reading == And(command.opcode, CLOCK_TDO) # 0
        Throw(e) == [exc |-> e, fsm |-> f, calls |-> <<>>, reply |-> None]
        Loop(pins, rd) == Returned(ClockLoop(NewLoop(f), pins, 1, rd, src))
        Nothing == [exc |-> "none", fsm |-> f, calls |-> <<>>,
                    reply |-> Some(<<>>)]
    IN
    IF command.type = CLOCK_TMS
    THEN IF ~InFlags(command, LSB_FIRST) \/ ~InFlags(command, NEG_EDGE_OUT)
            \/ ~InFlags(command, BITWISE)
            \/ (reading /\ ~InFlags(command, NEG_EDGE_IN))
            \/ ~(command.length <= 7)
         THEN Throw("AssertionError")
         ELSE LET tdi == IF And(command.data.v[1], 128) # 0 THEN 1 ELSE 0
              IN  Loop([bit \in 1..command.length |->
                           <<tdi, PinBit(command.data.v[1], bit - 1)>>],
                       reading)
    ELSE IF command.type = CLOCK_TDI
    THEN IF ~InFlags(command, LSB_FIRST) \/ ~InFlags(command, NEG_EDGE_OUT)
            \/ (reading /\ ~InFlags(command, NEG_EDGE_IN))
         THEN Throw("AssertionError")
         ELSE IF InFlags(command, BITWISE)
         THEN IF ~(command.length <= 7) THEN Throw("AssertionError")
              ELSE Loop([bit \in 1..command.length |->
                            <<PinBit(command.data.v[1], bit - 1), 0>>],
                        reading)
         ELSE Loop(BytePins(command.data.v, 0), reading)
    ELSE IF command.type = CLOCK_TDO
    THEN IF ~InFlags(command, LSB_FIRST) \/ ~InFlags(command, NEG_EDGE_IN)
         THEN Throw("AssertionError")
         ELSE IF InFlags(command, BITWISE)
         THEN IF ~(command.length <= 7) THEN Throw("AssertionError")
              ELSE Loop([bit \in 1..command.length |-> <<1, 0>>], TRUE)
         ELSE Loop([k \in 1..(8 * command.length) |-> <<1, 0>>], TRUE)
    ELSE IF command.type = SET_GPIO_LOW_BYTE
    THEN LET data == command.data.v[1]
             direction == command.data.v[2]
         IN  IF direction = 0
             THEN \* Inputs
                  IF ~LockAllowed(f)
                  THEN Throw("AssertionError")
                  ELSE [exc |-> "none", fsm |-> lock(f), calls |-> <<>>,
                        reply |-> None]
             ELSE IF \/ PinBit(direction, TCK) = 0
                     \/ PinBit(direction, TDI) = 0
                     \/ PinBit(direction, TMS) = 0
                     \/ PinBit(direction, TDO) # 0
                     \/ PinBit(data, TCK) # 0
                     \/ PinBit(data, TDI) # 0
                     \/ PinBit(data, TMS) = 0
             THEN Throw("AssertionError")
             ELSE [exc |-> "none", fsm |-> unlock(f), calls |-> <<>>,
                   reply |-> Some(<<>>)]
    ELSE Nothing

\* Bound: the number of bits of the bitwise commands replayed.
MaxBits == 3

\* The byte strings of the commands replayed: each decodes to one command.
SimStreams ==
    { <<128, 8, 11>>,           \* SET_GPIO_LOW(0x08, 0x0B): JTAG outputs
      <<128, 0, 0>>,            \* SET_GPIO_LOW(0x00, 0x00): all inputs
      <<128, 8, 3>>,            \* SET_GPIO_LOW(0x08, 0x03): TMS not driven
      <<25, 0, 0, 165>>,        \* 0x19: CLOCK_TDI, bytes, 1 byte
      <<61, 0, 0, 1>>,          \* 0x3d: CLOCK_TDI, bytes, reading
      <<44, 0, 0>>,             \* 0x2c: CLOCK_TDO, bytes, 1 byte
      <<44, 1, 0>>,             \* 0x2c: CLOCK_TDO, bytes, 2 bytes
      <<40, 0, 0>>,             \* 0x28: CLOCK_TDO without NEG_EDGE_IN
      <<73, 0, 0, 1>>,          \* 0x49: CLOCK_TMS without BITWISE
      <<75, 4, 31>>,            \* 0x4b: CLOCK_TMS, 5 bits of 0x1f
      <<75, 6, 127>>,           \* 0x4b: CLOCK_TMS, 7 bits of 0x7f
      <<143, 0, 0>>,            \* CLOCK_NO_DATA
      <<129>>,                  \* GET_GPIO_LOW
      <<133>> }                 \* DISABLE_LOOPBACK
    \cup { <<op, n - 1, d>> :
             op \in {75, 111},  \* 0x4b, 0x6f: CLOCK_TMS, bitwise (reading)
             n \in 1..MaxBits, d \in {0, 1, 2, 3, 5, 131} }
    \cup { <<op, n - 1, d>> :
             op \in {27, 63},   \* 0x1b, 0x3f: CLOCK_TDI, bitwise (reading)
             n \in {MaxBits}, d \in {5} }
    \cup { <<46, n - 1>> : n \in {MaxBits} }   \* 0x2e: CLOCK_TDO, bitwise

\* The command decode_commands makes of a byte string (with two reply bytes
\* at hand).
CommandOf(bytes) ==
    Iteration(Extend(NewBuffer, bytes, 1), Extend(NewBuffer, <<0, 0>>, 1),
              <<>>).cmds[1]

SimCommands == { CommandOf(bytes) : bytes \in SimStreams }

\* The variables of the FSM after run_ftdi_command(command, ..) did r.
Ran(command, r) ==
    /\ SetFsm(r.fsm)
    /\ calls' = r.calls
    /\ result' = [NoResult EXCEPT !.op = "run", !.exc = r.exc,
                      !.from = state, !.locked = pins_locked,
                      !.command = command, !.reply = r.reply]

RunFtdiCommand(command, src) ==
    /\ pc = "sim"
    /\ Ran(command, run_ftdi_command(command, Fsm, src))
    /\ UNCHANGED decvars
    /\ UNCHANGED devvars

(***************************************************************************)
(* registers.py.  A Python integer that a register loads or reads can be   *)
(* wider than 32 bits (DR widths go up to 121), so such an integer is      *)
(* modelled by its binary digits, least significant first: Bits(n, w) are  *)
(* the w low digits of n, BitAt(v, idx) is v & (1 << idx) != 0 and         *)
(* Value(v) is the integer itself.                                         *)
(***************************************************************************)
RECURSIVE Bits(_, _)
Bits(n, w) == IF w = 0 THEN <<>> ELSE <<n % 2>> \o Bits(n \div 2, w - 1)

BitAt(v, idx) == IF idx < Len(v) THEN v[idx + 1] ELSE 0

RECURSIVE Value(_)
Value(v) == IF v = <<>> THEN 0 ELSE Head(v) + 2 * Value(Tail(v))

\* self.dr = None
NoRegister == [kind |-> "none", width |-> 0, data |-> <<>>]

\* ShiftRegister.__init__: a deque of width zeros; data[1] is the left end.
ShiftRegister(width) ==
    [kind |-> "shift", width |-> width, data |-> Zeros(width)]

\* SinkRegister.__init__
SinkRegister == [kind |-> "sink", width |-> 0, data |-> <<>>]

\* shift(di): a ShiftRegister pops the left end and appends di at the right
\* (popleft of an empty deque raises IndexError before anything changes); a
\* SinkRegister appends di and returns 0.
shift_msb_out(r, di) ==
    IF r.kind = "sink"
    THEN [reg |-> [r EXCEPT !.data = Append(@, di)], ret |-> 0, exc |-> "none"]
    ELSE IF r.data = <<>>
    THEN [reg |-> r, ret |-> NoArg, exc |-> "IndexError"]
    ELSE [reg |-> [r EXCEPT !.data = <<di>> \o SubSeq(@, 1, Len(@) - 1)],
          ret |-> r.data[Len(r.data)], exc |-> "none"]

shift(r, di) ==
    IF r.kind = "sink"
    THEN [reg |-> [r EXCEPT !.data = Append(@, di)], ret |-> 0, exc |-> "none"]
    ELSE IF r.data = <<>>
    THEN [reg |-> r, ret |-> NoArg, exc |-> "IndexError"]
    ELSE [reg |-> [r EXCEPT !.data = Append(Tail(@), di)],
          ret |-> Head(r.data), exc |-> "none"]

\* load(data): data[idx] = 1 if data & (1 << idx) else 0, for idx < width.
load(r, data) ==
    [r EXCEPT !.data = [i \in 1..Len(@) |->
                           IF i <= r.width THEN BitAt(data, i - 1) ELSE @[i]]]

\* read(): bit idx of the result is set iff data[idx] is truthy; a
\* SinkRegister returns its list.
read(r) ==
    IF r.kind = "sink" THEN r.data
    ELSE [i \in 1..Len(r.data) |-> IF r.data[i] # 0 THEN 1 ELSE 0]

(***************************************************************************)
(* arm_jtag_models.py, zynq_usp_mpsoc_jtag_models.py, jtag_models.py.      *)
(* M is the ZynqJtagModel: the PS/PL TAP (ps), the ARM DAP TAP (dap) and   *)
(* the ArmDebugModel behind the DAP's dr_cb (debug), wired as main() wires *)
(* them.  A hook returns [M, ret, exc, events]: the model afterwards, the  *)
(* return value, the exception raised ("none" if none) and the callbacks   *)
(* made, in order.  A DrState is written by its name.                      *)
(***************************************************************************)
Hook(M, ret, e, ev) == [M |-> M, ret |-> ret, exc |-> e, events |-> ev]

\* One callback: ir_cb(dr_state), the PS dr_cb(dr_state, ir, dr), the DAP
\* dr_cb(dr_state, dr) and the ArmDebugModel callback(command, value, reg,
\* ap_num); None is NoArg, an absent value is <<>>.
Event(cb, dr_state, ir, dr) ==
    [cb |-> cb, dr_state |-> dr_state, ir |-> ir, dr |-> dr,
     command |-> "", reg |-> NoArg, ap_num |-> NoArg]

Command(command, value, r, ap_num) ==
    [cb |-> "debug", dr_state |-> "", ir |-> NoArg, dr |-> value,
     command |-> command, reg |-> r, ap_num |-> ap_num]

\* ArmDebugModel.__init__
ArmDebugModel == [apsel |-> NoArg, apbanksel |-> 0, dpbanksel |-> 0]

\* (dr_value >> 3) & 0xFFFFFFFF
datain(dr_value) == [i \in 1..32 |-> BitAt(dr_value, i + 2)]

\* SELECT written with the two bank fields exchanged
DpaccAccessBanksSwapped(L, A, RnW, din) ==
    IF A = 8 /\ ~RnW
    THEN [L |-> [apsel |-> Value(SubSeq(din, 25, 32)),
                 dpbanksel |-> Value(SubSeq(din, 5, 8)),
                 apbanksel |-> Value(SubSeq(din, 1, 4))],
          exc |-> "none", events |-> <<>>]
    ELSE IF A = 4
    THEN [L |-> L, exc |-> "none",
          events |-> IF RnW
              THEN <<Command("READ_DP_REGISTER", <<>>,
                             Or(Shl(L.dpbanksel, 4), A), NoArg)>>
              ELSE <<Command("WRITE_DP_REGISTER", din,
                             Or(Shl(L.dpbanksel, 4), A), NoArg)>>]
    ELSE IF RnW /\ A # 8
    THEN [L |-> L, exc |-> "none",
          events |-> <<Command("READ_DP_REGISTER", <<>>, A, NoArg)>>]
    ELSE [L |-> L, exc |-> "AssertionError", events |-> <<>>]

\* the read-only and write-only checks left out, every register banked
DpaccAccessUnchecked(L, A, RnW, din) ==
    IF A = 8 /\ ~RnW
    THEN [L |-> [apsel |-> Value(SubSeq(din, 25, 32)),
                 dpbanksel |-> Value(SubSeq(din, 1, 4)),
                 apbanksel |-> Value(SubSeq(din, 5, 8))],
          exc |-> "none", events |-> <<>>]
    ELSE [L |-> L, exc |-> "none",
          events |-> IF RnW
              THEN <<Command("READ_DP_REGISTER", <<>>,
                             Or(Shl(L.dpbanksel, 4), A), NoArg)>>
              ELSE <<Command("WRITE_DP_REGISTER", din,
                             Or(Shl(L.dpbanksel, 4), A), NoArg)>>]

\* ArmDebugModel.dr_access(dr_state, dr_value) on the record L
\* [L, exc, events]
DpaccAccess(L, A, RnW, din) ==
    IF A = 0 \/ A = 12
    THEN IF RnW
         THEN [L |-> L, exc |-> "none",
               events |-> <<Command("READ_DP_REGISTER", <<>>, A, NoArg)>>]
         ELSE [L |-> L, exc |-> "AssertionError", events |-> <<>>]
    ELSE IF A = 8
    THEN IF ~RnW
         THEN [L |-> [apsel |-> Value(SubSeq(din, 25, 32)),
                      dpbanksel |-> Value(SubSeq(din, 1, 4)),
                      apbanksel |-> Value(SubSeq(din, 5, 8))],
               exc |-> "none", events |-> <<>>]
         ELSE [L |-> L, exc |-> "AssertionError", events |-> <<>>]
    ELSE [L |-> L, exc |-> "none",
          events |-> IF RnW
              THEN <<Command("READ_DP_REGISTER", <<>>,
                             Or(Shl(L.dpbanksel, 4), A), NoArg)>>
              ELSE <<Command("WRITE_DP_REGISTER", din,
                             Or(Shl(L.dpbanksel, 4), A), NoArg)>>]

\* the AP register banked by dpbanksel instead of apbanksel
ApaccAccessDpBank(L, A, RnW, din) ==
    [L |-> L, exc |-> "none",
     events |-> IF RnW
         THEN <<Command("READ_AP_REGISTER", <<>>,
                        Or(Shl(L.dpbanksel, 4), A), L.apsel)>>
         ELSE <<Command("WRITE_AP_REGISTER", din,
                        Or(Shl(L.dpbanksel, 4), A), L.apsel)>>]

ApaccAccess(L, A, RnW, din) ==
    [L |-> L, exc |-> "none",
     events |-> IF RnW
         THEN <<Command("READ_AP_REGISTER", <<>>,
                        Or(Shl(L.apbanksel, 4), A), L.apsel)>>
         ELSE <<Command("WRITE_AP_REGISTER", din,
                        Or(Shl(L.apbanksel, 4), A), L.apsel)>>]

dr_access(L, dr_state, dr_value) ==
    IF dr_state = "ABORT"
    THEN [L |-> L, exc |-> "none",
          events |-> <<Command("ABORT", dr_value, NoArg, NoArg)>>]
    ELSE IF dr_state = "IDCODE" \/ dr_state = "BYPASS"
    THEN [L |-> L, exc |-> "none", events |-> <<>>]
    ELSE IF dr_state = "DPACC"
    THEN DpaccAccess(L, Shl(BitAt(dr_value, 1) + 2 * BitAt(dr_value, 2), 2),
                     BitAt(dr_value, 0) # 0, datain(dr_value))
    ELSE IF dr_state = "APACC"
    THEN ApaccAccess(L, Shl(BitAt(dr_value, 1) + 2 * BitAt(dr_value, 2), 2),
                     BitAt(dr_value, 0) # 0, datain(dr_value))
    ELSE [L |-> L, exc |-> "AssertionError", events |-> <<>>]

(***************************************************************************)
(* arm_jtag_models.py: ArmMemApModel.  TAR[31:0], TAR[63:32] and written   *)
(* values are sequences of 32 bits, least significant first; a tar_low of  *)
(* None is NoTar.  A returned string is the record of its format and of    *)
(* the fields put into it, an address or value as its hexadecimal digits.  *)
(***************************************************************************)
CSW == 0
TAR == 4
TAR_HIGH == 8
DRW == 12
BD0 == 16
BD1 == 20
BD2 == 24
BD3 == 28
MBT == 32
BASE == 240
CFG == 244
BASE_HIGH == 248
IDR == 252

ArmMemApRegister ==
    {CSW, TAR, TAR_HIGH, DRW, BD0, BD1, BD2, BD3, MBT, BASE, CFG, BASE_HIGH, IDR}

Off == 0
Single == 1
Packed == 2

NoTar == <<>>

ArmMemApModel ==
    [tar_low |-> NoTar, tar_high |-> Zeros(32), width |-> NoArg,
     auto_increment |-> NoArg]

\* '{:0nx}'.format(v): the n hexadecimal digits of v, most significant first
Hex(v, n) == [i \in 1..n |-> Value(SubSeq(v, 4 * (n - i) + 1, 4 * (n - i) + 4))]

\* v + n on the bits of v, the carry out of the last one dropped
RECURSIVE AddBits(_, _)
AddBits(v, n) ==
    IF v = <<>> THEN <<>>
    ELSE <<(Head(v) + n) % 2>> \o AddBits(Tail(v), (Head(v) + n) \div 2)

\* (tar_high << 32) | tar_low
Tar(ap) == ap.tar_low \o ap.tar_high

Msg(text, bits, address, value, incr) ==
    [text |-> text, bits |-> bits, address |-> address, value |-> value,
     incr |-> incr]

Text(text) == Msg(text, 0, <<>>, <<>>, 0)

MemApRet(ap, ret, e) == [ap |-> ap, ret |-> ret, exc |-> e]

Unset(ap) ==
    ap.tar_low = NoTar \/ ap.width = NoArg \/ ap.auto_increment = NoArg

\* TAR advanced by a constant 4 bytes
auto_increment_tar_by_4(ap) ==
    IF Unset(ap) THEN MemApRet(ap, 0, "AssertionError")
    ELSE IF ap.auto_increment = Off THEN MemApRet(ap, 0, "none")
    ELSE IF ap.auto_increment = Single
    THEN MemApRet([ap EXCEPT !.tar_low = SubSeq(AddBits(Tar(ap), 4), 1, 32),
                             !.tar_high = SubSeq(AddBits(Tar(ap), 4), 33, 64)],
                  ap.width * 8, "none")
    ELSE MemApRet(ap, 0, "NotImplementedError")

\* auto_increment_tar(): ret is the number of bits named by the returned
\* suffix, 0 for the empty one
auto_increment_tar(ap) ==
    IF Unset(ap) THEN MemApRet(ap, 0, "AssertionError")
    ELSE IF ap.auto_increment = Off THEN MemApRet(ap, 0, "none")
    ELSE IF ap.auto_increment = Single
    THEN MemApRet([ap EXCEPT
                      !.tar_low = SubSeq(AddBits(Tar(ap), ap.width), 1, 32),
                      !.tar_high = SubSeq(AddBits(Tar(ap), ap.width), 33, 64)],
                  ap.width * 8, "none")
    ELSE IF ap.auto_increment = Packed
    THEN MemApRet(ap, 0, "NotImplementedError")
    ELSE MemApRet(ap, 0, "AssertionError")

\* tar & 0xFFFFFFF0 | offset
BankedAddress(ap, offset) ==
    Bits(offset, 4) \o SubSeq(Tar(ap), 5, 32)

\* the mask applied to the low four bits only
BankedAddressFull(ap, offset) ==
    Bits(offset, 4) \o SubSeq(Tar(ap), 5, 64)

\* read_banked(offset) and write_banked(offset, value): text is "Reading"
\* or "Writing", value <<>> for a read
Banked(ap, text, offset, value) ==
    IF ap.tar_low = NoTar \/ ap.width # 4 \/ offset \notin {0, 4, 8, 12}
    THEN MemApRet(ap, None, "AssertionError")
    ELSE IF ap.tar_high = Zeros(32)
    THEN MemApRet(ap, Some(Msg(text, ap.width * 8,
                               Hex(BankedAddress(ap, offset), 8), value, 0)),
                  "none")
    ELSE MemApRet(ap, Some(Msg(text, ap.width * 8,
                               Hex(BankedAddress(ap, offset) \o Zeros(32), 16),
                               value, 0)),
                  "none")

read_banked(ap, offset) == Banked(ap, "Reading", offset, <<>>)

write_banked(ap, offset, value) == Banked(ap, "Writing", offset, Hex(value, 8))

\* the DRW branch of read_register and write_register
DrwAccess(ap, text, value) ==
    IF Unset(ap) THEN MemApRet(ap, None, "AssertionError")
    ELSE IF auto_increment_tar(ap).exc # "none"
    THEN MemApRet(ap, None, auto_increment_tar(ap).exc)
    ELSE MemApRet(auto_increment_tar(ap).ap,
                  Some(Msg(text, ap.width * 8,
                           IF ap.tar_high = Zeros(32) THEN Hex(ap.tar_low, 8)
                           ELSE Hex(Tar(ap), 16),
                           value, auto_increment_tar(ap).ret)),
                  "none")

read_register(ap, r) ==
    IF r \notin ArmMemApRegister THEN MemApRet(ap, None, "ValueError")
    ELSE IF r = CSW THEN MemApRet(ap, Some(Text("Read MEM-AP CSW")), "none")
    ELSE IF r = TAR
    THEN MemApRet(ap, Some(Text("Read MEM-AP TAR[31:0]")), "none")
    ELSE IF r = TAR_HIGH
    THEN MemApRet(ap, Some(Text("Read MEM-AP TAR[63:32]")), "none")
    ELSE IF r = DRW THEN DrwAccess(ap, "Reading", <<>>)
    ELSE IF r = BD0 THEN read_banked(ap, 0)
    ELSE IF r = BD1 THEN read_banked(ap, 4)
    ELSE IF r = BD2 THEN read_banked(ap, 8)
    ELSE IF r = BD3 THEN read_banked(ap, 12)
    ELSE IF r = MBT THEN MemApRet(ap, None, "NotImplementedError")
    ELSE IF r = BASE THEN MemApRet(ap, Some(Text("Read MEM-AP BASE")), "none")
    ELSE IF r = CFG THEN MemApRet(ap, Some(Text("Read MEM-AP CFG")), "none")
    ELSE IF r = BASE_HIGH
    THEN MemApRet(ap, Some(Text("Read MEM-AP BASE_HIGH")), "none")
    ELSE MemApRet(ap, Some(Text("Read MEM-AP IDR")), "none")

\* the barrier bits checked before anything is assigned
WriteCswChecksFirst(ap, value) ==
    IF SubSeq(value, 9, 12) # Zeros(4)
    THEN MemApRet(ap, None, "NotImplementedError")
    ELSE IF Value(SubSeq(value, 1, 3)) > 5
    THEN MemApRet(ap, None, "AssertionError")
    ELSE IF Value(SubSeq(value, 5, 6)) = 3
    THEN MemApRet(ap, None, "ValueError")
    ELSE MemApRet([ap EXCEPT !.width = 2 ^ Value(SubSeq(value, 1, 3)),
                             !.auto_increment = Value(SubSeq(value, 5, 6))],
                  None, "none")

\* the CSW branch of write_register
WriteCsw(ap, value) ==
    IF Value(SubSeq(value, 1, 3)) > 5
    THEN MemApRet(ap, None, "AssertionError")
    ELSE IF Value(SubSeq(value, 5, 6)) \notin {Off, Single, Packed}
    THEN MemApRet([ap EXCEPT !.width = 2 ^ Value(SubSeq(value, 1, 3))],
                  None, "ValueError")
    ELSE MemApRet([ap EXCEPT !.width = 2 ^ Value(SubSeq(value, 1, 3)),
                             !.auto_increment = Value(SubSeq(value, 5, 6))],
                  None,
                  IF SubSeq(value, 9, 12) # Zeros(4)
                  THEN "NotImplementedError" ELSE "none")

\* a write to a read-only register dropped without an error
write_register_ro_ignored(ap, r, value) ==
    IF r \notin ArmMemApRegister THEN MemApRet(ap, None, "ValueError")
    ELSE IF r = CSW THEN WriteCsw(ap, value)
    ELSE IF r = TAR THEN MemApRet([ap EXCEPT !.tar_low = value], None, "none")
    ELSE IF r = TAR_HIGH
    THEN MemApRet([ap EXCEPT !.tar_high = value], None, "none")
    ELSE IF r = DRW THEN DrwAccess(ap, "Writing", Hex(value, 8))
    ELSE IF r \in {BD0, BD1, BD2, BD3} THEN write_banked(ap, r - BD0, value)
    ELSE IF r = MBT THEN MemApRet(ap, None, "NotImplementedError")
    ELSE MemApRet(ap, None, "none")

write_register(ap, r, value) ==
    IF r \notin ArmMemApRegister THEN MemApRet(ap, None, "ValueError")
    ELSE IF r = CSW THEN WriteCsw(ap, value)
    ELSE IF r = TAR THEN MemApRet([ap EXCEPT !.tar_low = value], None, "none")
    ELSE IF r = TAR_HIGH
    THEN MemApRet([ap EXCEPT !.tar_high = value], None, "none")
    ELSE IF r = DRW THEN DrwAccess(ap, "Writing", Hex(value, 8))
    ELSE IF r = BD0 THEN write_banked(ap, 0, value)
    ELSE IF r = BD1 THEN write_banked(ap, 4, value)
    ELSE IF r = BD2 THEN write_banked(ap, 8, value)
    ELSE IF r = BD3 THEN write_banked(ap, 12, value)
    ELSE IF r = MBT THEN MemApRet(ap, None, "NotImplementedError")
    ELSE MemApRet(ap, None, "RuntimeError")

(***************************************************************************)
(* arm_jtag_models.py: ArmJtagApModel, and zynq_usp_mpsoc_jtag_models.py:  *)
(* DapOutputGroupers.  The file f is the sequence of the lines printed; a  *)
(* line is the record of its format and of the fields put into it.         *)
(***************************************************************************)
PSEL == 4
PSTA == 8
BxFIFO1 == 16
BxFIFO2 == 20
BxFIFO3 == 24
BxFIFO4 == 28

ArmJtagApRegister == {CSW, PSEL, PSTA, BxFIFO1, BxFIFO2, BxFIFO3, BxFIFO4, IDR}

ArmJtagApModel == [jtag_ap |-> TRUE]

jtag_ap_read_register(ap, r) ==
    IF r \notin ArmJtagApRegister THEN MemApRet(ap, None, "ValueError")
    ELSE IF r = CSW THEN MemApRet(ap, Some(Text("Read JTAG-AP CSW")), "none")
    ELSE IF r = IDR THEN MemApRet(ap, Some(Text("Read JTAG-AP IDR")), "none")
    ELSE MemApRet(ap, None, "NotImplementedError")

\* IDR written in the place of PSEL
jtag_ap_write_csw_idr(ap, r, value) ==
    IF r \notin ArmJtagApRegister THEN MemApRet(ap, None, "ValueError")
    ELSE IF r = CSW
    THEN MemApRet(ap, Some(Msg("Write JTAG-AP CSW", 0, <<>>, Hex(value, 8), 0)),
                  "none")
    ELSE IF r = IDR
    THEN MemApRet(ap, Some(Msg("Write JTAG-AP IDR", 0, <<>>, Hex(value, 8), 0)),
                  "none")
    ELSE MemApRet(ap, None, "NotImplementedError")

jtag_ap_write_register(ap, r, value) ==
    IF r \notin ArmJtagApRegister THEN MemApRet(ap, None, "ValueError")
    ELSE IF r = CSW
    THEN MemApRet(ap, Some(Msg("Write JTAG-AP CSW", 0, <<>>, Hex(value, 8), 0)),
                  "none")
    ELSE IF r = PSEL
    THEN MemApRet(ap, Some(Msg("Write JTAG-AP PSEL", 0, <<>>, Hex(value, 8), 0)),
                  "none")
    ELSE MemApRet(ap, None, "NotImplementedError")

\* ArmDpRegister: the values that name a DP register
ArmDpRegister == {0, 4, 20, 36, 52, 68, 8, 12}

\* DapOutputGroupers.__init__
DapOutputGroupers ==
    [lines |-> <<>>, f |-> <<>>,
     arm_aps |-> <<ArmMemApModel, ArmMemApModel, ArmJtagApModel>>]

\* a printed line: text names the format, then ap_num ({:d}, or the entry
\* of ap_names it selects in a header), reg (0x{:02x}, or the ArmDpRegister
\* name it selects) and value (0x{:08x}, 0x{:09x}) as the digits printed,
\* and the result of a header
Line(text, ap_num, r, value, res) ==
    [text |-> text, ap_num |-> ap_num, reg |-> r, value |-> value,
     result |-> res]

BlankLine == Line("", NoArg, <<>>, <<>>, None)

\* self.arm_aps[ap_num].read_register(reg) / .write_register(reg, value)
ApAccess(G, c) ==
    IF c.ap_num = NoArg THEN MemApRet(ArmJtagApModel, None, "TypeError")
    ELSE IF c.ap_num > 2 THEN MemApRet(ArmJtagApModel, None, "IndexError")
    ELSE IF c.ap_num = 2
    THEN IF c.command = "READ_AP_REGISTER"
         THEN jtag_ap_read_register(G.arm_aps[3], c.reg)
         ELSE jtag_ap_write_register(G.arm_aps[3], c.reg, c.dr)
    ELSE IF c.command = "READ_AP_REGISTER"
         THEN read_register(G.arm_aps[c.ap_num + 1], c.reg)
         ELSE write_register(G.arm_aps[c.ap_num + 1], c.reg, c.dr)

ApLine(c) ==
    IF c.command = "READ_AP_REGISTER"
    THEN Line("set ap_reg_value [$_CHIPNAME.dap apreg {} {}]", c.ap_num,
              Hex(Bits(c.reg, 8), 2), <<>>, None)
    ELSE Line("$_CHIPNAME.dap apreg {} {} {}", c.ap_num,
              Hex(Bits(c.reg, 8), 2), Hex(c.dr, 8), None)

Header(c, res) == Line("# {}: {}", c.ap_num, <<>>, <<>>, res)

GrouperRet(G, ret, e) == [G |-> G, ret |-> ret, exc |-> e]

\* the READ_AP_REGISTER and WRITE_AP_REGISTER branches with the outcome out
\* of the access: only the read branch empties self.lines
ApBranch(G, c, out) ==
    IF out.exc # "none"
    THEN GrouperRet(IF c.ap_num \in 0..2
                    THEN [G EXCEPT !.arm_aps[c.ap_num + 1] = out.ap] ELSE G,
                    None, out.exc)
    ELSE GrouperRet(
        [G EXCEPT !.arm_aps[c.ap_num + 1] = out.ap,
                  !.lines = IF out.ret.some /\ c.command = "READ_AP_REGISTER"
                            THEN <<>> ELSE Append(@, ApLine(c)),
                  !.f = IF out.ret.some
                        THEN @ \o <<Header(c, out.ret)>>
                               \o Append(G.lines, ApLine(c)) \o <<BlankLine>>
                        ELSE @],
        out.ret, "none")

\* openocd_dap_callback(command, value, reg, ap_num) on the record G
openocd_dap_callback(G, c) ==
    IF c.command = "ABORT"
    THEN GrouperRet([G EXCEPT !.f = @ \o
             <<Line("irscan $_CHIPNAME.tap [dap_ir ABORT]", NoArg, <<>>, <<>>,
                    None),
               Line("drscan $_CHIPNAME.tap 35 {}", NoArg, <<>>,
                    Hex(c.dr \o <<0>>, 9), None),
               BlankLine>>], None, "none")
    ELSE IF c.command \in {"READ_AP_REGISTER", "WRITE_AP_REGISTER"}
    THEN ApBranch(G, c, ApAccess(G, c))
    ELSE IF c.command \in {"READ_DP_REGISTER", "WRITE_DP_REGISTER"}
    THEN IF c.reg \notin ArmDpRegister THEN GrouperRet(G, None, "ValueError")
         ELSE GrouperRet([G EXCEPT !.f = @ \o
                  IF c.command = "READ_DP_REGISTER"
                  THEN <<Line("# Reading {}", NoArg, Hex(Bits(c.reg, 8), 2), <<>>,
                              None),
                         Line("set dp_reg_value [$_CHIPNAME.dap dpreg {}]",
                              NoArg, Hex(Bits(c.reg, 8), 2), <<>>, None),
                         BlankLine>>
                  ELSE <<Line("# Writing {} = {}", NoArg, Hex(Bits(c.reg, 8), 2),
                              Hex(c.dr, 8), None),
                         Line("$_CHIPNAME.dap dpreg {} {}", NoArg,
                              Hex(Bits(c.reg, 8), 2), Hex(c.dr, 8), None),
                         BlankLine>>], None, "none")
    ELSE GrouperRet(G, None, "AssertionError")

\* ArmDapJtagModel.__init__: the attribute enable does not exist until
\* reset() assigns it (has_enable).
ArmDapJtagModel(initial_will_enable) ==
    [ir |-> ShiftRegister(4), dr |-> NoRegister, dap_state |-> "BYPASS",
     will_enable |-> initial_will_enable, enabled |-> FALSE,
     has_enable |-> FALSE, enable |-> FALSE]

\* ZynqPsJtagModel.__init__
ZynqPsJtagModel ==
    [ir |-> ShiftRegister(12), captured_ir |-> NoArg, dr |-> NoRegister,
     dr_state |-> "IDCODE"]

\* ZynqJtagModel.__init__
ZynqJtagModel(initial_will_enable) ==
    [ps |-> ZynqPsJtagModel, dap |-> ArmDapJtagModel(initial_will_enable),
     debug |-> ArmDebugModel]

\* the shift hooks: self.dr is None until the first capture_dr
ShiftIn(M, name, r, tdi) ==
    IF M[name][r].kind = "none"
    THEN Hook(M, NoArg, "AttributeError", <<>>)
    ELSE Hook([M EXCEPT ![name][r] = shift(@, tdi).reg],
              shift(M[name][r], tdi).ret, shift(M[name][r], tdi).exc, <<>>)

\* ArmDapJtagModel
\* set_enable taking effect at once instead of at the next reset
dap_set_enable_now(M, enable) ==
    [M EXCEPT !.dap.will_enable = enable, !.dap.enable = enable]

dap_set_enable(M, enable) == [M EXCEPT !.dap.will_enable = enable]

dap_update_dr(M) ==
    IF M.dap.dr.kind = "none" THEN Hook(M, NoArg, "AttributeError", <<>>)
    ELSE Hook([M EXCEPT !.debug =
                   dr_access(@, M.dap.dap_state, read(M.dap.dr)).L],
              NoArg,
              dr_access(M.debug, M.dap.dap_state, read(M.dap.dr)).exc,
              <<Event("dap_dr", M.dap.dap_state, NoArg, read(M.dap.dr))>>
              \o dr_access(M.debug, M.dap.dap_state, read(M.dap.dr)).events)

dap_capture_ir(M) ==
    Hook([M EXCEPT !.dap.ir = load(@, Bits(1, 1))], NoArg, "none", <<>>)

\* capture_dr leaving the DR as it is when BYPASS is selected
dap_capture_dr_bypass_kept(M) ==
    IF M.dap.dap_state = "BYPASS"
    THEN Hook(M, NoArg, "none", <<>>)
    ELSE IF M.dap.dap_state = "IDCODE"
    THEN Hook([M EXCEPT !.dap.dr = load(ShiftRegister(32), Bits(1537213559, 32))],
              NoArg, "none", <<>>)
    ELSE IF M.dap.dap_state \in {"ABORT", "DPACC", "APACC"}
    THEN Hook([M EXCEPT !.dap.dr = ShiftRegister(35)], NoArg, "none", <<>>)
    ELSE Hook(M, NoArg, "AssertionError", <<>>)

dap_capture_dr(M) ==
    IF M.dap.dap_state = "BYPASS"
    THEN Hook([M EXCEPT !.dap.dr = load(ShiftRegister(1), Bits(0, 0))],
              NoArg, "none", <<>>)
    ELSE IF M.dap.dap_state = "IDCODE"
    THEN Hook([M EXCEPT !.dap.dr = load(ShiftRegister(32), Bits(1537213559, 32))],
              NoArg, "none", <<>>)
    ELSE IF M.dap.dap_state \in {"ABORT", "DPACC", "APACC"}
    THEN Hook([M EXCEPT !.dap.dr = ShiftRegister(35)], NoArg, "none", <<>>)
    ELSE Hook(M, NoArg, "AssertionError", <<>>)

\* the decode with unknown values falling back to BYPASS
DapIrDecodeFallback(ir) ==
    IF ir = 8 THEN "ABORT"
    ELSE IF ir = 10 THEN "DPACC"
    ELSE IF ir = 11 THEN "APACC"
    ELSE IF ir = 14 THEN "IDCODE"
    ELSE "BYPASS"

DapIrDecode(ir) ==
    IF ir = 8 THEN "ABORT"
    ELSE IF ir = 10 THEN "DPACC"
    ELSE IF ir = 11 THEN "APACC"
    ELSE IF ir = 14 THEN "IDCODE"
    ELSE IF ir = 15 THEN "BYPASS"
    ELSE "assert False"

\* update_ir with the enabled branch taken whether or not enable is set
dap_update_ir_always_enabled(M) ==
    IF DapIrDecode(Value(read(M.dap.ir))) = "assert False"
    THEN Hook(M, NoArg, "AssertionError", <<>>)
    ELSE Hook([M EXCEPT !.dap.dap_state = DapIrDecode(Value(read(M.dap.ir)))],
              NoArg, "none", <<>>)

dap_update_ir(M) ==
    IF ~M.dap.has_enable THEN Hook(M, NoArg, "AttributeError", <<>>)
    ELSE IF ~M.dap.enable
    THEN Hook([M EXCEPT !.dap.dap_state = "BYPASS"], NoArg, "none", <<>>)
    ELSE IF DapIrDecode(Value(read(M.dap.ir))) = "assert False"
    THEN Hook(M, NoArg, "AssertionError", <<>>)
    ELSE Hook([M EXCEPT !.dap.dap_state = DapIrDecode(Value(read(M.dap.ir)))],
              NoArg, "none", <<>>)

\* reset() selecting BYPASS whether or not the DAP is armed
dap_reset_to_bypass(M) ==
    Hook([M EXCEPT !.dap.has_enable = TRUE,
                   !.dap.enable = M.dap.will_enable,
                   !.dap.dap_state = "BYPASS"],
         NoArg, "none", <<>>)

dap_reset(M) ==
    Hook([M EXCEPT !.dap.has_enable = TRUE,
                   !.dap.enable = M.dap.will_enable,
                   !.dap.dap_state = IF M.dap.will_enable THEN "IDCODE"
                                     ELSE "BYPASS"],
         NoArg, "none", <<>>)

\* ZynqPsJtagModel
\* update_dr reporting what the IR holds instead of captured_ir
ps_update_dr_reads_ir(M) ==
    IF M.ps.dr.kind = "none" THEN Hook(M, NoArg, "AttributeError", <<>>)
    ELSE Hook(IF M.ps.dr_state = "JTAG_CTRL" /\ BitAt(read(M.ps.dr), 1) # 0
              THEN dap_set_enable(M, TRUE) ELSE M,
              NoArg, "none",
              <<Event("ps_dr", M.ps.dr_state, Value(read(M.ps.ir)),
                      read(M.ps.dr))>>)

\* update_dr passing bit 1 of JTAG_CTRL to set_enable, set or clear
ps_update_dr_follows_bit(M) ==
    IF M.ps.dr.kind = "none" THEN Hook(M, NoArg, "AttributeError", <<>>)
    ELSE Hook(IF M.ps.dr_state = "JTAG_CTRL"
              THEN dap_set_enable(M, BitAt(read(M.ps.dr), 1) # 0) ELSE M,
              NoArg, "none",
              <<Event("ps_dr", M.ps.dr_state, M.ps.captured_ir, read(M.ps.dr))>>)

ps_update_dr(M) ==
    IF M.ps.dr.kind = "none" THEN Hook(M, NoArg, "AttributeError", <<>>)
    ELSE Hook(IF M.ps.dr_state = "JTAG_CTRL" /\ BitAt(read(M.ps.dr), 1) # 0
              THEN dap_set_enable(M, TRUE) ELSE M,
              NoArg, "none",
              <<Event("ps_dr", M.ps.dr_state, M.ps.captured_ir, read(M.ps.dr))>>)

ps_capture_ir(M) ==
    Hook([M EXCEPT !.ps.ir = load(@, Bits(81, 7))], NoArg, "none", <<>>)

PsDrWidth(dr_state) ==
    IF dr_state = "BYPASS" THEN 1
    ELSE IF dr_state = "PS_IDCODE_DEVICE_ID" THEN 64
    ELSE IF dr_state = "ERROR_STATUS" THEN 121
    ELSE IF dr_state = "FUSE_DNA" THEN 96
    ELSE 32

PsDrLoad(dr_state) ==
    IF dr_state = "BYPASS" THEN Bits(1, 1)
    ELSE IF dr_state = "IDCODE" THEN Bits(342950035, 32)
    ELSE IF dr_state = "PS_IDCODE_DEVICE_ID"
    THEN Zeros(32) \o Bits(342950035, 32)
    ELSE <<>>

\* capture_dr giving UNKNOWN_STATE_9FF the 32-bit register of the plain
\* instructions
ps_capture_dr_unknown_32(M) ==
    IF M.ps.dr_state \in {"JPROGRAM", "JSTART", "ISC_NOOP"}
    THEN Hook(M, NoArg, "AssertionError", <<>>)
    ELSE IF M.ps.dr_state = "CFG_IN"
    THEN Hook([M EXCEPT !.ps.dr = SinkRegister], NoArg, "none", <<>>)
    ELSE Hook([M EXCEPT !.ps.dr = load(ShiftRegister(PsDrWidth(M.ps.dr_state)),
                                       PsDrLoad(M.ps.dr_state))],
              NoArg, "none",
              IF M.ps.dr_state = "PS_IDCODE_DEVICE_ID"
              THEN <<Event("ps_ir", "PS_IDCODE_DEVICE_ID", NoArg, <<>>)>>
              ELSE <<>>)

ps_capture_dr(M) ==
    IF M.ps.dr_state \in {"JPROGRAM", "JSTART", "ISC_NOOP", "UNKNOWN_STATE_9FF"}
    THEN Hook(M, NoArg, "AssertionError", <<>>)
    ELSE IF M.ps.dr_state = "CFG_IN"
    THEN Hook([M EXCEPT !.ps.dr = SinkRegister], NoArg, "none", <<>>)
    ELSE Hook([M EXCEPT !.ps.dr = load(ShiftRegister(PsDrWidth(M.ps.dr_state)),
                                       PsDrLoad(M.ps.dr_state))],
              NoArg, "none",
              IF M.ps.dr_state = "PS_IDCODE_DEVICE_ID"
              THEN <<Event("ps_ir", "PS_IDCODE_DEVICE_ID", NoArg, <<>>)>>
              ELSE <<>>)

\* the if/elif chain of ZynqPsJtagModel.update_ir on ps_ir and pl_ir
PlIrDecode(pl_ir) ==
    IF pl_ir = 2 THEN "USER1"
    ELSE IF pl_ir = 3 THEN "USER2"
    ELSE IF pl_ir = 4 THEN "CFG_OUT"
    ELSE IF pl_ir = 5 THEN "CFG_IN"
    ELSE IF pl_ir = 11 THEN "JPROGRAM"
    ELSE IF pl_ir = 12 THEN "JSTART"
    ELSE IF pl_ir = 20 THEN "ISC_NOOP"
    ELSE IF pl_ir = 34 THEN "USER3"
    ELSE IF pl_ir = 35 THEN "USER4"
    ELSE IF pl_ir = 50 THEN "FUSE_DNA"
    ELSE "assert False"

PsIrDecode(ps_ir) ==
    IF ps_ir = 3 THEN "PMU_MDM"
    ELSE IF ps_ir = 25 THEN "IP_DISABLE"
    ELSE IF ps_ir = 31 THEN "JTAG_STATUS"
    ELSE IF ps_ir = 32 THEN "JTAG_CTRL"
    ELSE IF ps_ir = 62 THEN "ERROR_STATUS"
    ELSE "assert False"

IrDecode(ps_ir, pl_ir) ==
    IF ps_ir = 9 /\ pl_ir = 9 THEN "PS_IDCODE_DEVICE_ID"
    ELSE IF ps_ir = 63 /\ pl_ir = 63 THEN "BYPASS"
    ELSE IF ps_ir = 25 /\ pl_ir = 63 THEN "IP_DISABLE"
    ELSE IF ps_ir = 39 /\ pl_ir = 63 THEN "UNKNOWN_STATE_9FF"
    ELSE IF ps_ir = 36 THEN PlIrDecode(pl_ir)
    ELSE IF pl_ir = 36 THEN PsIrDecode(ps_ir)
    ELSE "assert False"

\* the branches of update_ir that call ir_cb
IrCallback(dr_state) ==
    IF dr_state \in {"UNKNOWN_STATE_9FF", "JPROGRAM", "JSTART", "ISC_NOOP"}
    THEN <<Event("ps_ir", dr_state, NoArg, <<>>)>>
    ELSE <<>>

PsUpdateIr(M, raw_ir, dr_state) ==
    IF dr_state = "assert False"
    THEN Hook([M EXCEPT !.ps.captured_ir = raw_ir], NoArg, "AssertionError", <<>>)
    ELSE Hook([M EXCEPT !.ps.captured_ir = raw_ir, !.ps.dr_state = dr_state],
              NoArg, "none", IrCallback(dr_state))

\* update_ir splitting the raw IR one bit too low
ps_update_ir_split_at_5(M) ==
    PsUpdateIr(M, Value(read(M.ps.ir)),
               IrDecode(And(Value(read(M.ps.ir)) \div 32, 63),
                        And(Value(read(M.ps.ir)), 63)))

ps_update_ir(M) ==
    PsUpdateIr(M, Value(read(M.ps.ir)),
               IrDecode(And(Value(read(M.ps.ir)) \div 64, 63),
                        And(Value(read(M.ps.ir)), 63)))

ps_reset(M) ==
    Hook([M EXCEPT !.ps.dr_state = "IDCODE", !.ps.captured_ir = NoArg],
         NoArg, "none", <<>>)

\* the method hook of the model called name
ModelHook(name, hook, M, tdi) ==
    IF name = "ps"
    THEN CASE hook = "shift_dr" -> ShiftIn(M, "ps", "dr", tdi)
           [] hook = "shift_ir" -> ShiftIn(M, "ps", "ir", tdi)
           [] hook = "update_dr" -> ps_update_dr(M)
           [] hook = "update_ir" -> ps_update_ir(M)
           [] hook = "capture_dr" -> ps_capture_dr(M)
           [] hook = "capture_ir" -> ps_capture_ir(M)
           [] hook = "reset" -> ps_reset(M)
           [] OTHER -> Hook(M, NoArg, "none", <<>>)
    ELSE CASE hook = "shift_dr" -> ShiftIn(M, "dap", "dr", tdi)
           [] hook = "shift_ir" -> ShiftIn(M, "dap", "ir", tdi)
           [] hook = "update_dr" -> dap_update_dr(M)
           [] hook = "update_ir" -> dap_update_ir(M)
           [] hook = "capture_dr" -> dap_capture_dr(M)
           [] hook = "capture_ir" -> dap_capture_ir(M)
           [] hook = "reset" -> dap_reset(M)
           [] OTHER -> Hook(M, NoArg, "none", <<>>)

\* JtagChain(models=[ps_model, dap_model])
ModelsDapFirst == <<"dap", "ps">>

models == <<"ps", "dap">>

\* h followed by the call n, which is not made if h raised
Join(h, n) == [n EXCEPT !.events = h.events \o @]

\* JtagChain.<hook>: the loop over self.models from index k on; a shift
\* hook passes each model's output to the next one.
RECURSIVE ChainFrom(_, _, _)
ChainFrom(k, hook, h) ==
    IF k > Len(models) \/ h.exc # "none" THEN h
    ELSE ChainFrom(k + 1, hook, Join(h, ModelHook(models[k], hook, h.M, h.ret)))

JtagChain(hook, M, tdi) == ChainFrom(1, hook, Hook(M, tdi, "none", <<>>))

(***************************************************************************)
(* Specifications.                                                         *)
(***************************************************************************)
DecoderIdle(p) ==
    /\ ftdi_bytes = NewBuffer
    /\ ftdi_replies = NewBuffer
    /\ frame_idx = 0
    /\ ftdi_commands = <<>>
    /\ pc = p
    /\ exc = NoExc
    /\ iter = NoIter

FsmNew ==
    /\ state = NewFsm.state
    /\ last_tdo = NewFsm.last_tdo
    /\ pins_locked = NewFsm.pins_locked
    /\ calls = <<>>
    /\ result = NoResult

\* No register under test, the models as main() constructs them, no callback
\* made and no scan under way.
DevIdle ==
    /\ reg = NoRegister
    /\ jtag_model = ZynqJtagModel(FALSE)
    /\ events = <<>>
    /\ feed = <<>>
    /\ mem_ap = ArmMemApModel
    /\ dap_output = DapOutputGroupers

\* Spec: a capture is read into the two buffers and decoded.
Init == DecoderIdle("load") /\ FsmNew /\ DevIdle

Next ==
    \/ \E is_ftdift \in BOOLEAN,
          tx_data \in {None} \cup {Some(d) : d \in TxPayloads},
          rx_data \in {None} \cup {Some(d) : d \in RxPayloads} :
            ReadRecord(is_ftdift, tx_data, rx_data)
    \/ StartDecode
    \/ DecodeStep
    \/ DecodeEnd

Spec == Init /\ [][Next]_vars

\* while len(ftdi_bytes): the condition under which DecodeStep is enabled
LoopCondition == pc = "decode" /\ BufLen(ftdi_bytes) # 0

\* SpecDecodeFair: the same, with the call of decode_commands running to
\* its end: the loop and the code after it have no suspension point, so an
\* iteration that can be taken is taken, and so is the check after the loop.
\* The first condition is WF_vars(DecodeStep) with ENABLED written out.
SpecDecodeFair ==
    /\ Init /\ [][Next]_vars
    /\ ([]<>(~LoopCondition) \/ []<><<DecodeStep>>_vars)
    /\ WF_vars(DecodeEnd)

\* SpecOpcode: decode_commands called on one TX batch <<opcode, a, b>>
\* followed by n zero bytes, and one RX batch of m zero bytes (no RX batch
\* if m = 0), for every opcode.
MaxPayload == 257
FirstOperands == {0, 1, 6, 7, 255}
SecondOperands == {0, 1, 255}
TailLens == {0, 2, MaxPayload}
ReplyLens == {0, 2, MaxPayload}
InitOpcode ==
    /\ \E op \in 0..255, a \in FirstOperands, b \in SecondOperands,
          n \in TailLens, m \in ReplyLens :
          /\ ftdi_bytes = Extend(NewBuffer, <<op, a, b>> \o Zeros(n), 1)
          /\ ftdi_replies = IF m = 0 THEN NewBuffer
                            ELSE Extend(NewBuffer, Zeros(m), 1)
    /\ frame_idx = 1
    /\ ftdi_commands = <<>>
    /\ pc = "decode"
    /\ exc = NoExc
    /\ iter = NoIter
    /\ FsmNew /\ DevIdle

NextOpcode == DecodeStep \/ DecodeEnd

SpecOpcode == InitOpcode /\ [][NextOpcode]_vars

\* SpecFsm: the FSM driven through its own methods.
InitFsm == DecoderIdle("fsm") /\ FsmNew /\ DevIdle

NextFsm ==
    \/ \E tdi \in BIT, tms \in BIT, tdo \in BIT : Clock(tdi, tms, tdo)
    \/ Lock
    \/ Unlock

SpecFsm == InitFsm /\ [][NextFsm]_vars

\* SpecSim: the FSM driven by run_ftdi_command only.
InitSim == DecoderIdle("sim") /\ FsmNew /\ DevIdle

NextSim == \E command \in SimCommands, src \in TdoSources :
               RunFtdiCommand(command, src)

SpecSim == InitSim /\ [][NextSim]_vars

\* SpecBuffer: an RX Buffer driven through extend (always with a frame id,
\* as pcap_json_reader does) and popleft, then handed with a short TX stream
\* to decode_commands.
MaxExtends == 3
Batches == { <<>>, <<17>>, <<34, 51>> }
BufferStreams == { <<135>>, <<129>>, <<129, 135>>, <<135, 129>> }

BufExtend(iterable) ==
    /\ pc = "buffer"
    /\ frame_idx < MaxExtends
    /\ frame_idx' = frame_idx + 1
    /\ ftdi_replies' = Extend(ftdi_replies, iterable, frame_idx + 1)
    /\ result' = [NoResult EXCEPT !.op = "extend", !.reply = Some(iterable)]
    /\ UNCHANGED <<ftdi_bytes, ftdi_commands, pc, exc, iter, state, last_tdo,
                   pins_locked, calls>>
    /\ UNCHANGED devvars

BufPopleft ==
    /\ pc = "buffer"
    /\ LET p == Popleft(ftdi_replies)
       IN  /\ ftdi_replies' = p.B
           /\ result' = [NoResult EXCEPT !.op = "popleft", !.exc = p.exc,
                                         !.ret = p.ret]
    /\ UNCHANGED <<ftdi_bytes, frame_idx, ftdi_commands, pc, exc, iter, state,
                   last_tdo, pins_locked, calls>>
    /\ UNCHANGED devvars

BufDecode(tx_data) ==
    /\ pc = "buffer"
    /\ pc' = "decode"
    /\ ftdi_bytes' = Extend(NewBuffer, tx_data, 1)
    /\ ftdi_commands' = <<>>
    /\ UNCHANGED <<ftdi_replies, frame_idx, exc, iter, fsmvars>>
    /\ UNCHANGED devvars

InitBuffer == DecoderIdle("buffer") /\ FsmNew /\ DevIdle

NextBuffer ==
    \/ \E iterable \in Batches : BufExtend(iterable)
    \/ BufPopleft
    \/ \E tx_data \in BufferStreams : BufDecode(tx_data)
    \/ DecodeStep
    \/ DecodeEnd

SpecBuffer == InitBuffer /\ [][NextBuffer]_vars

\* SpecReg: one ShiftRegister of any width up to MaxWidth, loaded with
\* values up to twice its range, shifted and read in any order.  events is
\* the load that came last (none: the register is as constructed) and the
\* shifts made since; at most 2 * MaxWidth shifts follow one load.
MaxWidth == 3

RegCall(op, arg, ret) == [op |-> op, arg |-> arg, ret |-> ret]

RegLoad(data) ==
    /\ pc = "reg"
    /\ reg' = load(reg, Bits(data, MaxWidth + 1))
    /\ events' = <<RegCall("load", data, NoArg)>>
    /\ result' = [NoResult EXCEPT !.op = "load"]
    /\ UNCHANGED <<decvars, state, last_tdo, pins_locked, calls, jtag_model,
                   feed, mem_ap, dap_output>>

RegShift(di) ==
    /\ pc = "reg"
    /\ Len(SelectSeq(events, LAMBDA e : e.op = "shift")) < 2 * MaxWidth
    /\ reg' = shift(reg, di).reg
    /\ events' = IF shift(reg, di).exc = "none"
                 THEN Append(events, RegCall("shift", di, shift(reg, di).ret))
                 ELSE events
    /\ result' = [NoResult EXCEPT !.op = "shift", !.exc = shift(reg, di).exc,
                                  !.ret = shift(reg, di).ret]
    /\ UNCHANGED <<decvars, state, last_tdo, pins_locked, calls, jtag_model,
                   feed, mem_ap, dap_output>>

RegRead ==
    /\ pc = "reg"
    /\ result' = [NoResult EXCEPT !.op = "read", !.ret = Value(read(reg))]
    /\ UNCHANGED <<decvars, state, last_tdo, pins_locked, calls, devvars>>

InitReg ==
    /\ DecoderIdle("reg") /\ FsmNew
    /\ \E width \in 0..MaxWidth : reg = ShiftRegister(width)
    /\ jtag_model = ZynqJtagModel(FALSE)
    /\ events = <<>>
    /\ feed = <<>>
    /\ mem_ap = ArmMemApModel
    /\ dap_output = DapOutputGroupers

NextReg ==
    \/ \E data \in 0..(2 ^ (MaxWidth + 1) - 1) : RegLoad(data)
    \/ \E di \in BIT : RegShift(di)
    \/ RegRead

SpecReg == InitReg /\ [][NextReg]_vars

\* SpecZynq: a JtagFsm on the Zynq chain, unlocked and then clocked.  The
\* TDI bits of a scan are one word, chosen when the scan leaves its CAPTURE
\* state for its SHIFT state and shifted in full: feed is the bits still to
\* present (bits), the scans started (scans) and the TDI and TDO bits of
\* the scan so far (tdi, tdo).  An exception out of clock() ends the replay.
MaxScans == 4

NoFeed == [bits |-> <<>>, scans |-> 0, tdi |-> <<>>, tdo |-> <<>>,
           sweep |-> FALSE]

\* IR scans: every DAP instruction and one value that is none, with the
\* PS/PL instruction JTAG_CTRL (0x824); BYPASS (0xFFF), JPROGRAM (0x90B)
\* and a value that is no instruction (0x555) with the DAP's BYPASS; and a
\* scan of four bits only.
DapIrs == {8, 10, 11, 14, 15, 5}
PsIrs == {4095, 2315, 1365}
IrWords ==
    {Bits(d, 4) \o Bits(2084, 12) : d \in DapIrs}
    \cup {Bits(15, 4) \o Bits(p, 12) : p \in PsIrs}
    \cup {<<1, 0, 1, 0>>}

\* DR scans of the width n of the chain: zeros, ones, and bit 1 of the
\* PS/PL DR alone (bit k of the word).
DrWords(n, k) ==
    {Zeros(n), [i \in 1..n |-> 1], [i \in 1..n |-> IF i = k THEN 1 ELSE 0]}

ScanWords(s, M) ==
    IF s = "IRCAPTURE" THEN IrWords
    ELSE DrWords(Len(M.ps.dr.data) + Len(M.dap.dr.data),
                 Len(M.dap.dr.data) + 2)

\* the hook of jtag_model that clock() calls in state s, on the chain
HookName(s) ==
    IF HookCalls(s, NoArg, NoArg) = <<>> THEN "none"
    ELSE HookCalls(s, NoArg, NoArg)[1].hook

Hooked(M, s, tdi) ==
    IF HookName(s) = "none" THEN Hook(M, NoArg, "none", <<>>)
    ELSE JtagChain(HookName(s), M, tdi)

\* the sweep: one IR scan, of any PS/PL value with the DAP's BYPASS
SweepWords == {Bits(15, 4) \o Bits(raw_ir, 12) : raw_ir \in 0..4095}

\* the words a clock taken in state s with tms may start a scan with
Choices(s, tms, M) ==
    IF feed.sweep
    THEN IF s = "IRCAPTURE" /\ tms = 0 /\ feed.scans = 0 THEN SweepWords
         ELSE {<<>>}
    ELSE IF s \in {"IRCAPTURE", "DRCAPTURE"} /\ tms = 0 /\ feed.scans < MaxScans
    THEN ScanWords(s, M)
    ELSE {<<>>}

Fed(s, tdi, tdo, word) ==
    IF s \in {"IRCAPTURE", "DRCAPTURE"}
    THEN [bits |-> word, scans |-> feed.scans + (IF word = <<>> THEN 0 ELSE 1),
          tdi |-> <<>>, tdo |-> <<>>, sweep |-> feed.sweep]
    ELSE IF StoresTdo(s)
    THEN [feed EXCEPT !.bits = Tail(@), !.tdi = Append(@, tdi),
                      !.tdo = Append(@, tdo)]
    ELSE feed

\* clock(tdi, tms) with the hook's outcome h: the assert on pins_locked and
\* the table lookup come before the hook, the assignment of last_tdo and
\* of state after it.
ZynqClocked(tdi, tms, h, r, word) ==
    /\ result' = [NoResult EXCEPT !.op = "clock",
                      !.exc = IF r.exc # "none" THEN r.exc ELSE h.exc,
                      !.tdi = tdi, !.tms = tms,
                      !.ret = IF r.exc = "none" /\ h.exc = "none"
                              THEN r.ret ELSE NoArg,
                      !.from = state, !.locked = pins_locked]
    /\ IF r.exc # "none"
       THEN /\ pc' = "raised"
            /\ UNCHANGED <<state, last_tdo, pins_locked, calls, jtag_model,
                           events, feed>>
       ELSE IF h.exc # "none"
       THEN /\ pc' = "raised"
            /\ jtag_model' = h.M
            /\ events' = h.events
            /\ calls' = r.calls
            /\ UNCHANGED <<state, last_tdo, pins_locked, feed>>
       ELSE /\ pc' = pc
            /\ SetFsm(r.fsm)
            /\ calls' = r.calls
            /\ jtag_model' = h.M
            /\ events' = h.events
            /\ feed' = Fed(state, tdi, h.ret, word)
    /\ UNCHANGED <<ftdi_bytes, ftdi_replies, frame_idx, ftdi_commands, exc,
                   iter, reg, mem_ap, dap_output>>

ZynqHooked(tdi, tms, h) ==
    \E word \in Choices(state, tms, h.M) :
        /\ word = <<>> => JTAG_STATE_TABLE[<<state, tms>>] \notin {"DRSHIFT", "IRSHIFT"}
                          \/ (StoresTdo(state) /\ Len(feed.bits) > 1)
                          \/ pins_locked \/ h.exc # "none"
        /\ ZynqClocked(tdi, tms, h, clock(Fsm, tdi, tms, h.ret), word)

ZynqClock(tms) ==
    /\ pc = "fsm"
    /\ StoresTdo(state) =>
           feed.bits # <<>> /\ tms = (IF Len(feed.bits) = 1 THEN 1 ELSE 0)
    /\ IF StoresTdo(state)
       THEN ZynqHooked(Head(feed.bits), tms,
                       Hooked(jtag_model, state, Head(feed.bits)))
       ELSE ZynqHooked(0, tms, Hooked(jtag_model, state, 0))

\* SET_GPIO_LOW, once: the pins are locked at construction only
ZynqUnlock == pins_locked /\ Unlock

InitZynq ==
    /\ DecoderIdle("fsm") /\ FsmNew
    /\ reg = NoRegister
    /\ \E initial_will_enable \in BOOLEAN :
           jtag_model = ZynqJtagModel(initial_will_enable)
    /\ events = <<>>
    /\ feed = NoFeed
    /\ mem_ap = ArmMemApModel
    /\ dap_output = DapOutputGroupers

NextZynq == (\E tms \in BIT : ZynqClock(tms)) \/ ZynqUnlock

SpecZynq == InitZynq /\ [][NextZynq]_vars

\* SpecPsIr: the same replay with one IR scan, of every 12-bit PS/PL value.
InitPsIr ==
    /\ DecoderIdle("fsm") /\ FsmNew
    /\ reg = NoRegister
    /\ jtag_model = ZynqJtagModel(FALSE)
    /\ events = <<>>
    /\ feed = [NoFeed EXCEPT !.sweep = TRUE]
    /\ mem_ap = ArmMemApModel
    /\ dap_output = DapOutputGroupers

SpecPsIr == InitPsIr /\ [][NextZynq]_vars

\* SpecDap: ArmDebugModel.dr_access called with the DrStates the DAP can
\* report and DR values of every RnW and A with a few datain words.  feed
\* is the datain of the last SELECT write made (<<>>: none yet).
Word32(b3, b2, b1, b0) == Bits(b0, 8) \o Bits(b1, 8) \o Bits(b2, 8) \o Bits(b3, 8)

Datains ==
    {Word32(0, 0, 0, 19), Word32(0, 17, 34, 51), Word32(1, 0, 0, 0),
     Word32(255, 255, 255, 255)}

DrValues(dr_state) ==
    IF dr_state = "BYPASS" THEN {<<0>>, <<1>>}
    ELSE IF dr_state = "IDCODE" THEN Datains
    ELSE {<<RnW>> \o Bits(A, 2) \o d : RnW \in BIT, A \in 0..3, d \in Datains}

IsSelectWrite(dr_state, dr_value) ==
    dr_state = "DPACC" /\ SubSeq(dr_value, 1, 3) = <<0, 0, 1>>

DrAccess(dr_state, dr_value) ==
    /\ pc = "dap"
    /\ jtag_model' = [jtag_model EXCEPT !.debug =
                          dr_access(@, dr_state, dr_value).L]
    /\ events' = dr_access(jtag_model.debug, dr_state, dr_value).events
    /\ result' = [NoResult EXCEPT !.op = "dr_access",
                      !.exc = dr_access(jtag_model.debug, dr_state, dr_value).exc,
                      !.from = dr_state, !.reply = Some(dr_value)]
    /\ feed' = IF IsSelectWrite(dr_state, dr_value)
               THEN SubSeq(dr_value, 4, 35) ELSE feed
    /\ UNCHANGED <<decvars, state, last_tdo, pins_locked, calls, reg, mem_ap,
                   dap_output>>

InitDap == DecoderIdle("dap") /\ FsmNew /\ DevIdle

NextDap ==
    \E dr_state \in {"ABORT", "IDCODE", "BYPASS", "DPACC", "APACC"} :
        \E dr_value \in DrValues(dr_state) : DrAccess(dr_state, dr_value)

SpecDap == InitDap /\ [][NextDap]_vars

\* SpecMemAp: read_register and write_register called on one ArmMemApModel
\* with every register, one number that is no register, and a few words per
\* register.  feed is the 64-bit TAR left by the last write of CSW, TAR or
\* TAR_HIGH (a), the number of DRW accesses made since (k) and the number
\* made in all (n), which is kept within MaxAccesses.
MaxAccesses == 2

CswValues ==
    {Bits(n, 32) : n \in {0, 1, 2, 3, 4, 5, 6, 7, 16, 18, 34, 50, 262, 274, 545}}

TarValues == {Word32(16, 0, 0, 0), Word32(255, 255, 255, 252)}

TarHighValues == {Zeros(32), Word32(255, 255, 255, 255)}

WriteValues(r) ==
    IF r = CSW THEN CswValues
    ELSE IF r = TAR THEN TarValues
    ELSE IF r = TAR_HIGH THEN TarHighValues
    ELSE {Word32(222, 173, 190, 239)}

MemApCalled(op, r, value, out) ==
    /\ pc = "mem_ap"
    /\ r = DRW => feed.n < MaxAccesses
    /\ mem_ap' = out.ap
    /\ result' = [op |-> op, exc |-> out.exc, reg |-> r, value |-> value,
                  ret |-> out.ret]
    /\ feed' = IF op = "write_register" /\ r \in {CSW, TAR, TAR_HIGH}
               THEN [a |-> Tar(out.ap), k |-> 0, n |-> feed.n]
               ELSE IF r = DRW /\ out.exc = "none"
               THEN [feed EXCEPT !.k = @ + 1, !.n = @ + 1]
               ELSE feed
    /\ UNCHANGED <<decvars, state, last_tdo, pins_locked, calls, reg,
                   jtag_model, events, dap_output>>

MemApRead(r) ==
    \E out \in {read_register(mem_ap, r)} :
        MemApCalled("read_register", r, <<>>, out)

MemApWrite(r, value) ==
    \E out \in {write_register(mem_ap, r, value)} :
        MemApCalled("write_register", r, value, out)

InitMemAp ==
    /\ DecoderIdle("mem_ap") /\ FsmNew
    /\ reg = NoRegister
    /\ jtag_model = ZynqJtagModel(FALSE)
    /\ events = <<>>
    /\ feed = [a |-> <<>>, k |-> 0, n |-> 0]
    /\ mem_ap = ArmMemApModel
    /\ dap_output = DapOutputGroupers

NextMemAp ==
    \E r \in ArmMemApRegister \cup {36} :
        \/ MemApRead(r)
        \/ \E value \in WriteValues(r) : MemApWrite(r, value)

SpecMemAp == InitMemAp /\ [][NextMemAp]_vars

\* SpecGrouper: openocd_dap_callback called with commands as the lifter
\* makes them, at most MaxCallbacks that return; events is the list of the
\* commands whose callback returned.  An exception ends the run.
MaxCallbacks == 3

GrouperCommands ==
    {Command("WRITE_AP_REGISTER", Bits(18, 32), CSW, 0),
     Command("WRITE_AP_REGISTER", Word32(16, 0, 0, 0), TAR, 0),
     Command("WRITE_AP_REGISTER", Word32(222, 173, 190, 239), DRW, 0),
     Command("READ_AP_REGISTER", <<>>, DRW, 0),
     Command("READ_AP_REGISTER", <<>>, CSW, 0),
     Command("WRITE_AP_REGISTER", Word32(16, 0, 0, 0), TAR, 1),
     Command("READ_AP_REGISTER", <<>>, CSW, NoArg),
     Command("READ_AP_REGISTER", <<>>, CSW, 3),
     Command("READ_DP_REGISTER", <<>>, 4, NoArg),
     Command("READ_DP_REGISTER", <<>>, 84, NoArg),
     Command("WRITE_DP_REGISTER", Word32(0, 0, 0, 19), 4, NoArg),
     Command("ABORT", <<1, 0, 0>> \o Zeros(32), NoArg, NoArg)}
    \cup {Command("READ_AP_REGISTER", <<>>, r, 2) : r \in ArmJtagApRegister}
    \cup {Command("WRITE_AP_REGISTER", Word32(0, 0, 0, 1), r, 2) :
              r \in ArmJtagApRegister}

GrouperCallback(c) ==
    /\ pc = "grouper"
    /\ Len(events) < MaxCallbacks
    /\ \E out \in {openocd_dap_callback(dap_output, c)} :
        /\ dap_output' = out.G
        /\ events' = IF out.exc = "none" THEN Append(events, c) ELSE events
        /\ result' = [op |-> "callback", exc |-> out.exc, command |-> c,
                      ret |-> out.ret]
        /\ pc' = IF out.exc = "none" THEN pc ELSE "raised"
    /\ UNCHANGED <<ftdi_bytes, ftdi_replies, frame_idx, ftdi_commands, exc,
                   iter, state, last_tdo, pins_locked, calls, reg, jtag_model,
                   feed, mem_ap>>

InitGrouper == DecoderIdle("grouper") /\ FsmNew /\ DevIdle

NextGrouper == \E c \in GrouperCommands : GrouperCallback(c)

SpecGrouper == InitGrouper /\ [][NextGrouper]_vars

\* SpecReader: pcap_json_reader on a capture whose last record carries an
\* RX payload of 1..MaxRxLen bytes, after records of another protocol.  The
\* byte at offset i of the payload is i mod 251; result keeps the payload.
MaxRxLen == 1030

Payload(L) == [i \in 1..L |-> (i - 1) % 251]

SkipRecord ==
    /\ pc = "read"
    /\ frame_idx < MaxRecords - 1
    /\ frame_idx' = frame_idx + 1
    /\ result' = [op |-> "skip", in_data |-> <<>>]
    /\ UNCHANGED <<ftdi_bytes, ftdi_replies, ftdi_commands, pc, exc, iter,
                   state, last_tdo, pins_locked, calls, devvars>>

ReadRx(L) ==
    /\ pc = "read"
    /\ frame_idx < MaxRecords
    /\ frame_idx' = frame_idx + 1
    /\ ftdi_replies' = Extend(ftdi_replies, RxOutData(Payload(L)), frame_idx + 1)
    /\ result' = [op |-> "read", in_data |-> Payload(L)]
    /\ pc' = "returned"
    /\ UNCHANGED <<ftdi_bytes, ftdi_commands, exc, iter, state, last_tdo,
                   pins_locked, calls, devvars>>

InitReader == DecoderIdle("read") /\ FsmNew /\ DevIdle

NextReader == SkipRecord \/ \E L \in 1..MaxRxLen : ReadRx(L)

SpecReader == InitReader /\ [][NextReader]_vars

(***************************************************************************)
(* Properties of the TAP controller (SpecFsm) and of the pin lock          *)
(* (SpecSim).                                                              *)
(***************************************************************************)
\* The IR state that mirrors a DR state.
IrTwin(s) ==
    CASE s = "DRSELECT" -> "IRSELECT" [] s = "DRCAPTURE" -> "IRCAPTURE"
      [] s = "DRSHIFT" -> "IRSHIFT" [] s = "DREXIT1" -> "IREXIT1"
      [] s = "DRPAUSE" -> "IRPAUSE" [] s = "DREXIT2" -> "IREXIT2"
      [] s = "DRUPDATE" -> "IRUPDATE"

\* The IEEE 1149.1 successor inside the DR column, SELECT/1 left out.
DrSuccessor(s, tms) ==
    CASE s = "DRSELECT" -> "DRCAPTURE"
      [] s = "DRCAPTURE" -> IF tms = 0 THEN "DRSHIFT" ELSE "DREXIT1"
      [] s = "DRSHIFT" -> IF tms = 0 THEN "DRSHIFT" ELSE "DREXIT1"
      [] s = "DREXIT1" -> IF tms = 0 THEN "DRPAUSE" ELSE "DRUPDATE"
      [] s = "DRPAUSE" -> IF tms = 0 THEN "DRPAUSE" ELSE "DREXIT2"
      [] s = "DREXIT2" -> IF tms = 0 THEN "DRSHIFT" ELSE "DRUPDATE"

DrColumn == {"DRSELECT", "DRCAPTURE", "DRSHIFT", "DREXIT1", "DRPAUSE",
             "DREXIT2", "DRUPDATE"}

\* The IEEE 1149.1 successor of (s, tms).
Ieee1149Successor(s, tms) ==
    LET dr == IF s \in DrColumn THEN s
              ELSE CHOOSE d \in DrColumn : IrTwin(d) = s
        ir == s \notin DrColumn
    IN  IF s = "RESET" THEN (IF tms = 1 THEN "RESET" ELSE "RUN_IDLE")
        ELSE IF s = "RUN_IDLE" THEN (IF tms = 1 THEN "DRSELECT" ELSE "RUN_IDLE")
        ELSE IF dr = "DRUPDATE" THEN (IF tms = 1 THEN "DRSELECT" ELSE "RUN_IDLE")
        ELSE IF dr = "DRSELECT" /\ tms = 1
        THEN (IF ir THEN "RESET" ELSE "IRSELECT")
        ELSE IF ir THEN IrTwin(DrSuccessor(dr, tms))
        ELSE DrSuccessor(dr, tms)

\* C1: the table has an entry for each of the 16 states and both TMS values
\* (32 entries), and in every reachable state a clock taken with the pins
\* unlocked succeeds and leaves the FSM in the IEEE 1149.1 successor of
\* (state, tms), whatever tdi and the model's tdo are; the clock that led
\* here (if unlocked) did so too.
C1_ClockFollowsIeee1149 ==
    /\ DOMAIN JTAG_STATE_TABLE = JtagState \X BIT
    /\ Cardinality(DOMAIN JTAG_STATE_TABLE) = 32
    /\ state \in JtagState
    /\ \A tdi \in BIT, tms \in BIT, tdo \in BIT :
          LET r == clock(unlock(Fsm), tdi, tms, tdo)
          IN  /\ r.exc = "none"
              /\ r.fsm.state = Ieee1149Successor(state, tms)
    /\ (result.op = "clock" /\ ~result.locked) =>
          /\ result.exc = "none"
          /\ state = Ieee1149Successor(result.from, result.tms)

\* C1 witness: an unlocked clock with TMS=1 and TDI=0 took IREXIT2 to
\* IRUPDATE.
C1_Witness ==
    /\ result.op = "clock" /\ ~result.locked /\ result.exc = "none"
    /\ result.from = "IREXIT2" /\ result.tms = 1 /\ result.tdi = 0
    /\ state = "IRUPDATE"

\* The hook the specification names for a state, as the calls list.
HookOfState(s, tdi, tdo) ==
    CASE s = "RESET" -> <<Call("reset", NoArg, NoArg)>>
      [] s = "RUN_IDLE" -> <<Call("run_idle", NoArg, NoArg)>>
      [] s = "DRCAPTURE" -> <<Call("capture_dr", NoArg, NoArg)>>
      [] s = "DRSHIFT" -> <<Call("shift_dr", tdi, tdo)>>
      [] s = "DRUPDATE" -> <<Call("update_dr", NoArg, NoArg)>>
      [] s = "IRCAPTURE" -> <<Call("capture_ir", NoArg, NoArg)>>
      [] s = "IRSHIFT" -> <<Call("shift_ir", tdi, tdo)>>
      [] s = "IRUPDATE" -> <<Call("update_ir", NoArg, NoArg)>>
      [] s \in {"DRSELECT", "IRSELECT", "DREXIT1", "IREXIT1", "DRPAUSE",
                "IRPAUSE", "DREXIT2", "IREXIT2"} -> <<>>

ShiftStates == {"DRSHIFT", "IRSHIFT"}

ClockingTypes == {CLOCK_TMS, CLOCK_TDI, CLOCK_TDO}

IsSetGpioLow(command, value, direction) ==
    /\ command.type = SET_GPIO_LOW_BYTE
    /\ command.data.v = <<value, direction>>

\* C3: the pins are locked only in RESET or RUN_IDLE; a clocking command
\* run while they are locked fails, leaves the TAP state alone and invokes
\* no hook; SET_GPIO_LOW with direction 0 in any other TAP state fails and
\* does not lock; SET_GPIO_LOW(0x08, 0x0B) unlocks and invokes no hook.
C3_PinLockProtocol ==
    /\ pins_locked => state \in {"RESET", "RUN_IDLE"}
    /\ (result.op = "run" /\ result.locked
           /\ result.command.type \in ClockingTypes) =>
          /\ result.exc # "none"
          /\ state = result.from
          /\ calls = <<>>
          /\ pins_locked
    /\ (result.op = "run"
           /\ result.command.type = SET_GPIO_LOW_BYTE
           /\ result.command.data.v[2] = 0
           /\ result.from \notin {"RESET", "RUN_IDLE"}) =>
          /\ result.exc # "none"
          /\ pins_locked = result.locked
          /\ ~pins_locked
    /\ (result.op = "run" /\ IsSetGpioLow(result.command, 8, 11)) =>
          /\ result.exc = "none"
          /\ ~pins_locked
          /\ calls = <<>>
          /\ state = result.from

\* C3 witness: SET_GPIO_LOW with direction 0 was refused in DRSHIFT, which
\* an unlock and clocking commands had reached.
C3_Witness ==
    /\ result.op = "run"
    /\ IsSetGpioLow(result.command, 0, 0)
    /\ result.from = "DRSHIFT"
    /\ result.exc = "AssertionError"
    /\ ~pins_locked

(***************************************************************************)
(* decode_commands: what an iteration did.                                 *)
(***************************************************************************)
Last(s) == s[Len(s)]

\* The exception came out of an iteration, not out of the check after the
\* loop (whose DecodeError is the only one without a last byte).
IterationRaised ==
    /\ pc = "raised"
    /\ ~(exc.kind = "DecodeError" /\ exc.last_byte = NoByte)

\* The state is the one an iteration of the loop ended in.
IterationDone == iter.n >= 1 /\ (pc = "decode" \/ IterationRaised)

TxTaken == ftdi_bytes.pop_index - iter.tx0
RxTaken == ftdi_replies.pop_index - iter.rx0

TmsWithTdi == "When clocking TMS, cannot clock TDI?"
UnknownByte(b) == "Unknown byte " \o hex(b)

\* What the specification's precedence list gives an opcode: the command
\* type with the operand bytes and reply bytes of a fixed size command (-1
\* where the size depends on a length field), or the message of the error.
Outcome(type, tx, rx) == [ok |-> TRUE, type |-> type, msg |-> "", tx |-> tx, rx |-> rx]
Refused(msg) == [ok |-> FALSE, type |-> -1, msg |-> msg, tx |-> 0, rx |-> 0]
Precedence(b) ==
    IF b \in {170, 171} THEN Outcome(UNKNOWN, 0, 2)
    ELSE IF b = 151 THEN Outcome(DISABLE_RCLK, 0, 0)
    ELSE IF Bit(b, 6) = 1
    THEN IF Bit(b, 4) = 1 THEN Refused(TmsWithTdi)
         ELSE Outcome(CLOCK_TMS, -1, -1)
    ELSE IF Bit(b, 4) = 1 THEN Outcome(CLOCK_TDI, -1, -1)
    ELSE IF Bit(b, 5) = 1 THEN Outcome(CLOCK_TDO, -1, -1)
    ELSE IF b = 143 THEN Outcome(CLOCK_NO_DATA, 2, 0)
    ELSE IF b = 128 THEN Outcome(SET_GPIO_LOW_BYTE, 2, 0)
    ELSE IF b = 130 THEN Outcome(SET_GPIO_HIGH_BYTE, 2, 0)
    ELSE IF b = 129 THEN Outcome(GET_GPIO_LOW_BYTE, 0, 1)
    ELSE IF b = 131 THEN Outcome(GET_GPIO_HIGH_BYTE, 0, 1)
    ELSE IF b = 133 THEN Outcome(DISABLE_LOOPBACK, 0, 0)
    ELSE IF b = 134 THEN Outcome(SET_DIVISOR, 2, 0)
    ELSE IF b = 135 THEN Outcome(FLUSH, 0, 0)
    ELSE IF b = 138 THEN Outcome(DISABLE_DIV_BY_5, 0, 0)
    ELSE Refused(UnknownByte(b))

\* The concatenated replies of a command list.
RECURSIVE Replies(_)
Replies(cmds) ==
    IF cmds = <<>> THEN <<>>
    ELSE (IF cmds[1].reply.some THEN cmds[1].reply.v ELSE <<>>)
             \o Replies(Tail(cmds))

\* The TX bytes a decoded command stands for: opcode, length or operand
\* bytes, payload.
TxSize(c) ==
    1 + (IF c.type \in {CLOCK_TMS, CLOCK_TDI}
         THEN (IF Bit(c.opcode, 1) = 1 THEN 1 ELSE 2) + Len(c.data.v)
         ELSE IF c.type = CLOCK_TDO THEN (IF Bit(c.opcode, 1) = 1 THEN 1 ELSE 2)
         ELSE IF c.type \in {CLOCK_NO_DATA, SET_GPIO_LOW_BYTE,
                             SET_GPIO_HIGH_BYTE, SET_DIVISOR} THEN 2
         ELSE 0)

RECURSIVE TxTotal(_)
TxTotal(cmds) ==
    IF cmds = <<>> THEN 0 ELSE TxSize(cmds[1]) + TxTotal(Tail(cmds))

LeftoverMsg(n) == "Leftover RX data, leftover = " \o str(n) \o "."

\* C4: when decode_commands returns, both cursors are at the end of their
\* buffers, the replies of the commands are the RX bytes in order and the
\* commands account for every TX byte; and when the TX buffer is exhausted
\* the call returns only if no RX byte is left, failing otherwise with the
\* DecodeError 'Leftover RX data'.
C4_ReturnConsumesAll ==
    /\ [](pc = "returned" =>
            /\ ftdi_bytes.pop_index = Len(ftdi_bytes.buf)
            /\ ftdi_replies.pop_index = Len(ftdi_replies.buf)
            /\ Replies(ftdi_commands) = ftdi_replies.buf
            /\ TxTotal(ftdi_commands) = Len(ftdi_bytes.buf)
            /\ exc = NoExc)
    /\ [][ (pc = "decode" /\ pc' # "decode"
              /\ ftdi_bytes.pop_index = Len(ftdi_bytes.buf)) =>
             IF ftdi_replies.pop_index < Len(ftdi_replies.buf)
             THEN /\ pc' = "raised"
                  /\ exc'.kind = "DecodeError"
                  /\ exc'.msg = LeftoverMsg(Len(ftdi_replies.buf)
                                                - ftdi_replies.pop_index)
             ELSE pc' = "returned"
         ]_vars

\* C4 witness: decode_commands returned two commands, having consumed RX
\* bytes.
C4_Witness ==
    /\ pc = "returned"
    /\ Len(ftdi_commands) = 2
    /\ Len(ftdi_replies.buf) >= 1
    /\ ftdi_replies.pop_index = Len(ftdi_replies.buf)

\* The first command of the call had all the bytes it could ask for: a
\* length field of at most 7, that many payload bytes and reply bytes.
Supplied ==
    /\ iter.n = 1
    /\ Len(ftdi_bytes.buf) >= 11
    /\ Len(ftdi_replies.buf) >= 8
    /\ ftdi_bytes.buf[2] <= 6
    /\ ftdi_bytes.buf[3] = 0

\* C5: the outcome of an iteration is the one the precedence list gives
\* its opcode byte.  An opcode the list refuses (TMS with TDI, or no entry)
\* raises the DecodeError of that case and appends nothing; any other
\* opcode appends, when the iteration succeeds, one command of the listed
\* type carrying the opcode, having consumed the listed operand and reply
\* bytes of a fixed size command, fails with neither of the two refusals,
\* and does succeed when the bytes it asks for are there (FLUSH also needs
\* the RX cursor on a boundary).
C5_OpcodePrecedence ==
    IterationDone =>
        LET e == Precedence(iter.byte) IN
        /\ ~e.ok =>
              /\ pc = "raised"
              /\ exc.kind = "DecodeError"
              /\ exc.msg = e.msg
              /\ Len(ftdi_commands) = iter.n - 1
              /\ TxTaken = 1 /\ RxTaken = 0
        /\ (e.ok /\ pc = "decode") =>
              /\ Len(ftdi_commands) = iter.n
              /\ Last(ftdi_commands).type = e.type
              /\ Last(ftdi_commands).opcode = iter.byte
              /\ e.tx # -1 => TxTaken = 1 + e.tx
              /\ e.rx # -1 => RxTaken = e.rx
              /\ e.rx > 0 => Len(Last(ftdi_commands).reply.v) = e.rx
        /\ (e.ok /\ pc = "raised") =>
              /\ exc.msg \notin {TmsWithTdi, UnknownByte(iter.byte)}
              /\ Len(ftdi_commands) = iter.n - 1
        /\ (e.ok /\ Supplied /\ iter.byte # 135) => pc = "decode"

\* C5 witness: the first opcode 0x86 was decoded as SET_DIVISOR with its
\* two operand bytes.
C5_Witness ==
    /\ iter.n = 1 /\ iter.byte = 134 /\ pc = "decode"
    /\ Len(ftdi_commands) = 1
    /\ ftdi_commands[1].type = SET_DIVISOR
    /\ ftdi_bytes.pop_index = 3

\* The iteration decoded FLUSH and left the RX cursor on a batch boundary.
FlushOnBoundary ==
    /\ IterationDone
    /\ iter.byte = 135
    /\ ftdi_replies.pop_index \in ftdi_replies.insert_boundry

\* The iteration decoded the byte 0x55 right after an emitted FLUSH.
Byte55AfterFlush ==
    /\ IterationDone
    /\ iter.byte = 85
    /\ iter.n >= 2
    /\ Len(ftdi_commands) = iter.n - 1
    /\ Last(ftdi_commands).type = FLUSH

\* The error of the byte 0x55 with the given message.
Byte55Error(msg) ==
    /\ pc = "raised"
    /\ exc = DecodeError(msg, Some(ftdi_commands), 85)
    /\ Last(exc.commands.v).type = FLUSH

\* C6 (as amended): FLUSH decoded with the RX cursor on a boundary is
\* emitted; a next TX byte 0x55 has the TMS and TDI bits set and fails with
\* the DecodeError 'When clocking TMS, cannot clock TDI?', last_byte 0x55,
\* the emitted FLUSH being the last of the commands the error carries.
C6_FlushThenTmsTdiError ==
    /\ FlushOnBoundary =>
          /\ pc = "decode"
          /\ Len(ftdi_commands) = iter.n
          /\ Last(ftdi_commands).type = FLUSH
          /\ Last(ftdi_commands).opcode = 135
    /\ Byte55AfterFlush => Byte55Error(TmsWithTdi)

\* C6 witness: 0x55 was refused right after an emitted FLUSH.
C6_Witness == Byte55AfterFlush /\ Byte55Error(TmsWithTdi)

\* C6 as the specification words it: the byte 0x55 after FLUSH fails with
\* the message 'Unknown byte 0x55'.
C6_UnknownByte55 ==
    /\ FlushOnBoundary => (pc = "decode" /\ Last(ftdi_commands).type = FLUSH)
    /\ Byte55AfterFlush => Byte55Error("Unknown byte 0x55")

\* C7 as the specification words it: a decode_commands call that does not
\* return fails with a DecodeError.
C7_FailsWithDecodeError == pc = "raised" => exc.kind = "DecodeError"

\* C8 as the specification words it: every DecodeError carries the
\* offending opcode byte and the commands decoded before the failure.
C8_ErrorCarriesContext ==
    (pc = "raised" /\ exc.kind = "DecodeError") =>
        /\ exc.last_byte \in 0..255
        /\ exc.commands = Some(ftdi_commands)

\* The iteration decoded a clocking opcode in the given mode (bit 1 set:
\* bitwise) and its length field was in the TX buffer.
ClockingIteration(bitwise, fieldlen) ==
    /\ IterationDone
    /\ Precedence(iter.byte).ok
    /\ Precedence(iter.byte).type \in ClockingTypes
    /\ Bit(iter.byte, 1) = bitwise
    /\ iter.tx0 + 1 + fieldlen <= Len(ftdi_bytes.buf)

RawLength == ftdi_bytes.buf[iter.tx0 + 2]

\* C9: a bitwise CLOCK_TMS, CLOCK_TDI or CLOCK_TDO with raw length byte
\* 0..6 is decoded with length raw + 1 (it can fail only for want of
\* bytes); with raw length byte 7 or more it fails with DecodeError having
\* consumed the opcode and the length byte only, no reply byte, and having
\* appended no command.
C9_BitwiseLength ==
    ClockingIteration(1, 1) =>
        IF RawLength <= 6
        THEN /\ pc = "decode" =>
                   /\ Len(ftdi_commands) = iter.n
                   /\ Last(ftdi_commands).length = RawLength + 1
                   /\ Last(ftdi_commands).length \in 1..7
             /\ pc = "raised" => exc.kind = "IndexError"
        ELSE /\ pc = "raised"
             /\ exc.kind = "DecodeError"
             /\ exc.msg = "Bitwise clocking should only clock 7 or less bits, found "
                              \o str(RawLength + 1)
             /\ TxTaken = 2
             /\ RxTaken = 0
             /\ Len(ftdi_commands) = iter.n - 1

\* C9 witness: CLOCK_TMS opcode 0x4B with raw length byte 7 was refused.
C9_Witness ==
    /\ ClockingIteration(1, 1)
    /\ iter.byte = 75 /\ RawLength = 7
    /\ pc = "raised" /\ exc.kind = "DecodeError" /\ exc.last_byte = 75

\* The iteration decoded a command with a 16 bit length field.
ByteModeDecoded ==
    /\ IterationDone /\ pc = "decode"
    /\ \/ ClockingIteration(0, 2)
       \/ Precedence(iter.byte).type = CLOCK_NO_DATA

ByteLength ==
    ftdi_bytes.buf[iter.tx0 + 2] + 256 * ftdi_bytes.buf[iter.tx0 + 3] + 1

\* C10: a decoded byte-mode CLOCK_TMS, CLOCK_TDI, CLOCK_TDO or
\* CLOCK_NO_DATA has length low + 256 * high + 1, within 1..65536;
\* CLOCK_TMS and CLOCK_TDI consumed that many payload bytes (the command's
\* data) and, if opcode bit 0x20 is set, that many RX bytes, none otherwise;
\* CLOCK_TDO consumed no payload and that many RX bytes; CLOCK_NO_DATA
\* consumed neither.
C10_ByteModeLength ==
    ByteModeDecoded =>
        LET c == Last(ftdi_commands)
            type == Precedence(iter.byte).type
            payload == TxTaken - 3
        IN  /\ c.length = ByteLength
            /\ c.length \in 1..65536
            /\ type \in {CLOCK_TMS, CLOCK_TDI} =>
                  /\ payload = c.length
                  /\ c.data.v = SubSeq(ftdi_bytes.buf, iter.tx0 + 4,
                                       iter.tx0 + 3 + c.length)
                  /\ RxTaken = IF Bit(iter.byte, 5) = 1 THEN c.length ELSE 0
                  /\ c.reply.some <=> Bit(iter.byte, 5) = 1
            /\ type = CLOCK_TDO =>
                  /\ payload = 0
                  /\ RxTaken = c.length
                  /\ Len(c.reply.v) = c.length
            /\ type = CLOCK_NO_DATA => (payload = 0 /\ RxTaken = 0)

\* C10 witness: opcode 0x39 with length bytes (0, 1) was decoded as a
\* CLOCK_TDI of 257 bytes that consumed 257 payload and 257 RX bytes.
C10_Witness ==
    /\ ByteModeDecoded
    /\ iter.byte = 57
    /\ Last(ftdi_commands).length = 257
    /\ TxTaken = 260 /\ RxTaken = 257

(***************************************************************************)
(* Properties of Buffer (SpecBuffer).                                      *)
(***************************************************************************)
\* The end positions of the batches appended to a buffer, read from the
\* byte ranges of its frames.
BatchEnds(B) == {B.frames[f][2] : f \in DOMAIN B.frames}

FlushRefused == "Should have a RX boundry in reply data?"

\* C11: a decoded FLUSH is emitted if and only if the RX cursor is the end
\* position of a batch that was appended to the RX buffer, and is refused
\* with DecodeError otherwise: at position 0 unless an empty batch was
\* appended there, and one byte before or after a batch end that is no
\* batch end itself.
C11_FlushOnBatchEnd ==
    (IterationDone /\ iter.byte = 135) =>
        IF ftdi_replies.pop_index \in BatchEnds(ftdi_replies)
        THEN /\ pc = "decode"
             /\ Len(ftdi_commands) = iter.n
             /\ Last(ftdi_commands).type = FLUSH
        ELSE /\ pc = "raised"
             /\ exc = DecodeError(FlushRefused, Some(ftdi_commands), 135)
             /\ Len(ftdi_commands) = iter.n - 1

\* C11 witness: FLUSH was refused with the RX cursor at position 0 of a
\* buffer holding unread bytes, no empty batch having been appended.
C11_Witness ==
    /\ IterationDone /\ iter.byte = 135
    /\ ftdi_replies.pop_index = 0
    /\ Len(ftdi_replies.buf) >= 1
    /\ 0 \notin BatchEnds(ftdi_replies)
    /\ pc = "raised" /\ exc.msg = FlushRefused

\* The frames whose half-open byte range contains position i.
FramesAt(B, i) ==
    {f \in DOMAIN B.frames : B.frames[f][1] <= i /\ i < B.frames[f][2]}

\* The frame id given by the latest extend.
LastFrame(B) == CHOOSE f \in DOMAIN B.frames : \A g \in DOMAIN B.frames : g <= f

\* The frames stamped on the command an iteration emitted are the current
\* frames of the two buffers (no reply frame without a reply).
StampedWithCurrentFrames ==
    (IterationDone /\ pc = "decode") =>
        /\ Last(ftdi_commands).command_frame = CurrentFrame(ftdi_bytes)
        /\ Last(ftdi_commands).reply_frame =
              IF Last(ftdi_commands).reply.some
              THEN CurrentFrame(ftdi_replies) ELSE NoFrame

\* C12 (as amended): current_frame() is None until the first byte is
\* popped and from then on the one frame whose byte range contains the byte
\* popped last (position cursor - 1), also when the cursor has reached the
\* range of the next frame or the end of the buffer; the frames stamped on a
\* decoded command are this value of the TX and of the RX buffer.
C12_FrameOfLastPoppedByte ==
    /\ \A B \in {ftdi_bytes, ftdi_replies} :
          IF B.pop_index = 0 THEN CurrentFrame(B) = NoFrame
          ELSE FramesAt(B, B.pop_index - 1) = {CurrentFrame(B)}
    /\ StampedWithCurrentFrames

\* C12 witness: GET_GPIO_LOW took the one byte of frame 1; the RX cursor is
\* in the range of frame 2 and the reply is stamped with frame 1.
C12_Witness ==
    /\ IterationDone /\ pc = "decode"
    /\ Last(ftdi_commands).type = GET_GPIO_LOW_BYTE
    /\ Last(ftdi_commands).reply_frame = 1
    /\ ftdi_replies.pop_index = 1
    /\ FramesAt(ftdi_replies, 1) = {2}

\* C12 as the specification words it: current_frame() is the frame whose
\* range contains the cursor while bytes remain, and the last frame at the
\* end of the buffer.
C12_FrameOfCursor ==
    /\ \A B \in {ftdi_bytes, ftdi_replies} :
          DOMAIN B.frames # {} =>
              IF B.pop_index < Len(B.buf)
              THEN FramesAt(B, B.pop_index) = {CurrentFrame(B)}
              ELSE CurrentFrame(B) = LastFrame(B)
    /\ StampedWithCurrentFrames

\* A step of SpecBuffer that calls the named method of the RX buffer.
BufferCall(op) == pc = "buffer" /\ pc' = "buffer" /\ result'.op = op

Shifts == SelectSeq(events, LAMBDA e : e.op = "shift")

Loaded == IF events # <<>> /\ events[1].op = "load" THEN events[1].arg ELSE 0

RECURSIVE InputSum(_)
InputSum(k) == IF k = 0 THEN 0 ELSE InputSum(k - 1) + Shifts[k].arg * 2 ^ (k - 1)

\* C14: a ShiftRegister of width W holds exactly W bits; after load(v) the
\* i-th of the first W shifts emits bit i of v (LSB first); read() directly
\* after load(v) is v mod 2^W, and read() after exactly W shifts of
\* b_0..b_(W-1) is the sum of b_i * 2^i.
C14_ShiftRegisterContract ==
    pc = "reg" =>
        /\ Len(reg.data) = reg.width
        /\ \A i \in 1..Len(Shifts) :
               i <= reg.width => Shifts[i].ret = Bit(Loaded, i - 1)
        /\ result.op = "read" /\ Len(Shifts) = 0 =>
               result.ret = Loaded % (2 ^ reg.width)
        /\ result.op = "read" /\ Len(Shifts) = reg.width =>
               result.ret = InputSum(reg.width)

C14_Witness ==
    /\ pc = "reg"
    /\ reg.width = 3
    /\ Loaded = 11
    /\ Len(Shifts) = 3
    /\ <<Shifts[1].ret, Shifts[2].ret, Shifts[3].ret>> = <<1, 1, 0>>
    /\ result.op = "read"
    /\ result.ret = 6

(***************************************************************************)
(* Properties of the Zynq chain (SpecZynq).                                *)
(***************************************************************************)
\* the registers r of the PS/PL TAP and of the DAP after one shift clock
\* with tdi: the PS/PL TAP takes tdi, the DAP takes what the PS/PL TAP
\* emitted, and the DAP's output is the chain's.
ShiftedInOrder(r, tdi) ==
    /\ jtag_model'.ps[r] = shift(jtag_model.ps[r], tdi).reg
    /\ jtag_model'.dap[r] =
           shift(jtag_model.dap[r], shift(jtag_model.ps[r], tdi).ret).reg
    /\ result'.ret =
           shift(jtag_model.dap[r], shift(jtag_model.ps[r], tdi).ret).ret
    /\ last_tdo' = result'.ret

AfterIrShift == {"IREXIT1", "IRPAUSE", "IREXIT2", "IRUPDATE"}

\* C15: a clock taken in DRSHIFT / IRSHIFT shifts the PS/PL TAP and then
\* the DAP, once each, the DAP's input being the PS/PL TAP's output, and
\* returns the DAP's output; after an IR capture and 16 IR shifts of
\* b_0..b_15 the DAP IR is b_0..b_3, the PS/PL IR is b_4..b_15 and the 16
\* TDO bits were 0x1 (4 bits) then 0x051 (12 bits), LSB first.
C15_ChainShiftsInListOrder ==
    /\ [](state \in AfterIrShift /\ Len(feed.tdi) = 16 =>
            /\ read(jtag_model.dap.ir) = SubSeq(feed.tdi, 1, 4)
            /\ read(jtag_model.ps.ir) = SubSeq(feed.tdi, 5, 16)
            /\ feed.tdo = <<1, 0, 0, 0>> \o <<1, 0, 0, 0, 1, 0, 1, 0, 0, 0, 0, 0>>)
    /\ [][result'.op = "clock" /\ result'.exc = "none" =>
            /\ state = "IRSHIFT" =>
                   /\ ShiftedInOrder("ir", result'.tdi)
                   /\ jtag_model'.ps.dr = jtag_model.ps.dr
                   /\ jtag_model'.dap.dr = jtag_model.dap.dr
            /\ state = "DRSHIFT" =>
                   /\ ShiftedInOrder("dr", result'.tdi)
                   /\ jtag_model'.ps.ir = jtag_model.ps.ir
                   /\ jtag_model'.dap.ir = jtag_model.dap.ir]_vars

C15_Witness ==
    /\ state = "IRUPDATE"
    /\ feed.tdi = <<0, 1, 0, 1>> \o <<0, 0, 1, 0, 0, 1, 0, 0, 0, 0, 0, 1>>
    /\ Value(read(jtag_model.dap.ir)) = 10
    /\ Value(read(jtag_model.ps.ir)) = 2084
    /\ Len(feed.tdo) = 16

\* a clock() that returned, i.e. whose hook was run to its end
ClockReturned == result'.op = "clock" /\ result'.exc = "none"

\* the PS/PL DR update that writes JTAG_CTRL with bit 1 set
ArmingUpdate ==
    /\ state = "DRUPDATE"
    /\ jtag_model.ps.dr_state = "JTAG_CTRL"
    /\ BitAt(jtag_model.ps.dr.data, 1) = 1

DapInstruction(ir) ==
    CASE ir = <<0, 0, 0, 1>> -> "ABORT"
      [] ir = <<0, 1, 0, 1>> -> "DPACC"
      [] ir = <<1, 1, 0, 1>> -> "APACC"
      [] ir = <<0, 1, 1, 1>> -> "IDCODE"
      [] ir = <<1, 1, 1, 1>> -> "BYPASS"
      [] OTHER -> "none"

\* C16: the arming DR update sets will_enable and nothing else of the DAP;
\* enable changes only on a clock taken in RESET, which copies will_enable
\* into it; an IR update with enable unset selects BYPASS whatever the IR
\* holds, and one with enable set selects the instruction of the five codes.
C16_EnableIsTwoPhase ==
    [][ClockReturned =>
        /\ ArmingUpdate =>
               /\ jtag_model'.dap.will_enable
               /\ jtag_model'.dap.enable = jtag_model.dap.enable
               /\ jtag_model'.dap.dap_state = jtag_model.dap.dap_state
        /\ state # "RESET" => jtag_model'.dap.enable = jtag_model.dap.enable
        /\ state = "RESET" => jtag_model'.dap.enable = jtag_model.dap.will_enable
        /\ state = "IRUPDATE" /\ ~jtag_model.dap.enable =>
               jtag_model'.dap.dap_state = "BYPASS"
        /\ state = "IRUPDATE" /\ jtag_model.dap.enable =>
               jtag_model'.dap.dap_state = DapInstruction(jtag_model.dap.ir.data)
      ]_vars

\* armed by JTAG_CTRL and not reset yet: the IR update of DPACC selected
\* BYPASS
C16_Witness ==
    /\ result.op = "clock" /\ result.from = "IRUPDATE" /\ result.exc = "none"
    /\ jtag_model.dap.will_enable
    /\ ~jtag_model.dap.enable
    /\ jtag_model.dap.ir.data = <<0, 1, 0, 1>>
    /\ jtag_model.dap.dap_state = "BYPASS"

\* the DAP is not enabled: reset() has not run yet, or it ran unarmed
NotEnabled == ~(jtag_model.dap.has_enable /\ jtag_model.dap.enable)

\* C17: while the DAP is not enabled its selected DR is BYPASS; a DR
\* capture then makes its DR one bit holding 0, and the callbacks of a DR
\* update carry the DAP's DrState BYPASS and no ABORT / DP / AP command.
C17_DisabledDapIsBypass ==
    /\ [](NotEnabled =>
            /\ jtag_model.dap.dap_state = "BYPASS"
            /\ jtag_model.dap.dr.kind = "shift" => jtag_model.dap.dr.width = 1
            /\ \A k \in 1..Len(events) :
                   /\ events[k].cb = "dap_dr" => events[k].dr_state = "BYPASS"
                   /\ events[k].cb # "debug")
    /\ [][ClockReturned /\ state = "DRCAPTURE" /\ NotEnabled =>
            jtag_model'.dap.dr = [kind |-> "shift", width |-> 1, data |-> <<0>>]
         ]_vars

\* a DR update of the armed, not yet enabled DAP whose IR holds DPACC
C17_Witness ==
    /\ result.op = "clock" /\ result.from = "DRUPDATE" /\ result.exc = "none"
    /\ jtag_model.dap.will_enable
    /\ ~jtag_model.dap.enable
    /\ jtag_model.dap.ir.data = <<0, 1, 0, 1>>
    /\ \E k \in 1..Len(events) :
           events[k].cb = "dap_dr" /\ events[k].dr_state = "BYPASS"

\* C18: a clock taken in IRUPDATE with the DAP enabled and an IR value that
\* is none of the five instructions raises, and the DAP's selected DR is
\* what it was; so does the IR update of a scan that shifted nothing, the
\* DAP IR still holding the capture value 0x1.
C18_UnknownDapIrFails ==
    [][result'.op = "clock" /\ state = "IRUPDATE" /\ ~NotEnabled =>
        /\ DapInstruction(jtag_model.dap.ir.data) = "none" =>
               /\ result'.exc = "AssertionError"
               /\ jtag_model'.dap.dap_state = jtag_model.dap.dap_state
        /\ feed.tdi = <<>> =>
               /\ jtag_model.dap.ir.data = <<1, 0, 0, 0>>
               /\ result'.exc = "AssertionError"
      ]_vars

\* the PS/PL TAP decoded JTAG_CTRL, then the enabled DAP refused IR 0x5 and
\* still selects IDCODE
C18_Witness ==
    /\ result.op = "clock" /\ result.from = "IRUPDATE"
    /\ result.exc = "AssertionError"
    /\ jtag_model.dap.enable
    /\ jtag_model.ps.captured_ir = 2084
    /\ jtag_model.ps.dr_state = "JTAG_CTRL"
    /\ jtag_model.dap.ir.data = <<1, 0, 1, 0>>
    /\ jtag_model.dap.dap_state = "IDCODE"

\* 0x5BA00477 and 0x14710093, 32 bits each, least significant bit first
DapIdcodeBits ==
    <<1, 1, 1, 0, 1, 1, 1, 0, 0, 0, 1, 0, 0, 0, 0, 0, 0, 0, 0, 0, 0, 1, 0, 1, 1, 1, 0, 1, 1, 0, 1, 0>>

PsIdcodeBits ==
    <<1, 1, 0, 0, 1, 0, 0, 1, 0, 0, 0, 0, 0, 0, 0, 0, 1, 0, 0, 0, 1, 1, 1, 0, 0, 0, 1, 0, 1, 0, 0, 0>>

\* what a DR scan returns on TDO when no IR was updated since the reset
TdoAfterReset ==
    (IF jtag_model.dap.enable THEN DapIdcodeBits ELSE <<0>>) \o PsIdcodeBits

InDrScan == {"DRSHIFT", "DREXIT1", "DRPAUSE", "DREXIT2", "DRUPDATE"}

\* C19: a clock taken in RESET leaves the PS/PL TAP on IDCODE with
\* captured_ir None and the DAP on IDCODE if will_enable is set, else on
\* BYPASS; the TDO bits of a DR scan made before any IR update are then the
\* DAP's IDCODE 0x5BA00477 (armed) or its BYPASS bit 0 (not armed), followed
\* by the PS/PL IDCODE 0x14710093, LSB first.
C19_ResetSelectsIdcode ==
    /\ [](state \in InDrScan /\ jtag_model.ps.captured_ir = NoArg =>
            /\ Len(feed.tdo) <= Len(TdoAfterReset)
            /\ feed.tdo = SubSeq(TdoAfterReset, 1, Len(feed.tdo))
            /\ state # "DRSHIFT" /\ feed.tdi # <<>> => feed.tdo = TdoAfterReset)
    /\ [][ClockReturned /\ state = "RESET" =>
            /\ jtag_model'.ps.dr_state = "IDCODE"
            /\ jtag_model'.ps.captured_ir = NoArg
            /\ jtag_model'.dap.dap_state =
                   IF jtag_model.dap.will_enable THEN "IDCODE" ELSE "BYPASS"
         ]_vars

\* the 64 TDO bits of a DR scan after a reset with the DAP armed
C19_Witness ==
    /\ state = "DRUPDATE"
    /\ jtag_model.ps.captured_ir = NoArg
    /\ jtag_model.dap.enable
    /\ Len(feed.tdo) = 64
    /\ feed.tdo[1] = 1 /\ feed.tdo[33] = 1

(***************************************************************************)
(* Properties of the PS/PL instruction decode (SpecPsIr).                  *)
(***************************************************************************)
\* the decode table: PL instructions under ps_ir = 0x24, PS instructions
\* under pl_ir = 0x24
PlInstruction ==
    [c \in {2, 3, 4, 5, 11, 12, 20, 34, 35, 50} |->
        CASE c = 2 -> "USER1" [] c = 3 -> "USER2" [] c = 4 -> "CFG_OUT"
          [] c = 5 -> "CFG_IN" [] c = 11 -> "JPROGRAM" [] c = 12 -> "JSTART"
          [] c = 20 -> "ISC_NOOP" [] c = 34 -> "USER3" [] c = 35 -> "USER4"
          [] c = 50 -> "FUSE_DNA"]

PsInstruction ==
    [c \in {3, 25, 31, 32, 62} |->
        CASE c = 3 -> "PMU_MDM" [] c = 25 -> "IP_DISABLE"
          [] c = 31 -> "JTAG_STATUS" [] c = 32 -> "JTAG_CTRL"
          [] c = 62 -> "ERROR_STATUS"]

Table(ps_ir, pl_ir) ==
    CASE ps_ir = 9 /\ pl_ir = 9 -> "PS_IDCODE_DEVICE_ID"
      [] ps_ir = 63 /\ pl_ir = 63 -> "BYPASS"
      [] ps_ir = 25 /\ pl_ir = 63 -> "IP_DISABLE"
      [] ps_ir = 39 /\ pl_ir = 63 -> "UNKNOWN_STATE_9FF"
      [] ps_ir = 36 /\ pl_ir \in DOMAIN PlInstruction -> PlInstruction[pl_ir]
      [] pl_ir = 36 /\ ps_ir \in DOMAIN PsInstruction -> PsInstruction[ps_ir]
      [] OTHER -> "fail"

IrCbStates == {"UNKNOWN_STATE_9FF", "JPROGRAM", "JSTART", "ISC_NOOP"}

\* the ir_cb calls among the callbacks of the step
IrCbs == SelectSeq(events', LAMBDA e : e.cb = "ps_ir")

RawIr == Value(jtag_model.ps.ir.data)

\* C20: a clock taken in IRUPDATE with the raw PS/PL IR value r selects
\* Table(r >> 6, r & 0x3F), records r in captured_ir and calls ir_cb once,
\* with the selected state, exactly for UNKNOWN_STATE_9FF, JPROGRAM, JSTART
\* and ISC_NOOP; where the table has no entry it raises and the selected
\* state stays.
C20_PsIrDecodeTable ==
    [][result'.op = "clock" /\ state = "IRUPDATE" =>
        IF Table(RawIr \div 64, RawIr % 64) = "fail"
        THEN /\ result'.exc = "AssertionError"
             /\ jtag_model'.ps.dr_state = jtag_model.ps.dr_state
             /\ IrCbs = <<>>
        ELSE /\ result'.exc = "none"
             /\ jtag_model'.ps.dr_state = Table(RawIr \div 64, RawIr % 64)
             /\ jtag_model'.ps.captured_ir = RawIr
             /\ IF jtag_model'.ps.dr_state \in IrCbStates
                THEN /\ Len(IrCbs) = 1
                     /\ IrCbs[1].dr_state = jtag_model'.ps.dr_state
                ELSE IrCbs = <<>>
      ]_vars

\* JSTART (0x90C) decoded, with its ir_cb
C20_Witness ==
    /\ result.op = "clock" /\ result.from = "IRUPDATE" /\ result.exc = "none"
    /\ feed.sweep
    /\ jtag_model.ps.captured_ir = 2316
    /\ jtag_model.ps.dr_state = "JSTART"
    /\ Len(events) = 1
    /\ events[1].cb = "ps_ir" /\ events[1].dr_state = "JSTART"

\* the DR widths of the PS/PL TAP (CFG_IN has the sink instead)
NoCapture == {"JPROGRAM", "JSTART", "ISC_NOOP", "UNKNOWN_STATE_9FF"}

WidthTable(dr_state) ==
    CASE dr_state = "BYPASS" -> 1
      [] dr_state = "PS_IDCODE_DEVICE_ID" -> 64
      [] dr_state = "FUSE_DNA" -> 96
      [] dr_state = "ERROR_STATUS" -> 121
      [] dr_state \in {"IDCODE", "JTAG_CTRL", "JTAG_STATUS", "IP_DISABLE",
                       "USER1", "USER2", "USER3", "USER4", "CFG_OUT",
                       "PMU_MDM"} -> 32
      [] OTHER -> 0

\* C21: a clock taken in DRCAPTURE with JPROGRAM, JSTART, ISC_NOOP or
\* UNKNOWN_STATE_9FF selected raises and leaves both DRs as they were; with
\* any other selected state it returns, and the PS/PL DR is a fresh sink
\* for CFG_IN and a shift register of the table width otherwise.
C21_CaptureWidths ==
    [][result'.op = "clock" /\ state = "DRCAPTURE" =>
        IF jtag_model.ps.dr_state \in NoCapture
        THEN /\ result'.exc = "AssertionError"
             /\ jtag_model'.ps.dr = jtag_model.ps.dr
             /\ jtag_model'.dap.dr = jtag_model.dap.dr
        ELSE /\ result'.exc = "none"
             /\ IF jtag_model.ps.dr_state = "CFG_IN"
                THEN jtag_model'.ps.dr = [kind |-> "sink", width |-> 0,
                                          data |-> <<>>]
                ELSE /\ jtag_model'.ps.dr.kind = "shift"
                     /\ jtag_model'.ps.dr.width =
                            WidthTable(jtag_model.ps.dr_state)
                     /\ Len(jtag_model'.ps.dr.data) =
                            WidthTable(jtag_model.ps.dr_state)
      ]_vars

\* UNKNOWN_STATE_9FF was selected (IR 0x9FF) and the capture refused
C21_Witness ==
    /\ result.op = "clock" /\ result.from = "DRCAPTURE"
    /\ result.exc = "AssertionError"
    /\ jtag_model.ps.captured_ir = 2559
    /\ jtag_model.ps.dr_state = "UNKNOWN_STATE_9FF"
    /\ jtag_model.ps.dr.kind = "none"

\* the DR callbacks among the callbacks of the step
DrCbs == SelectSeq(events', LAMBDA e : e.cb \in {"ps_dr", "dap_dr"})

Accessed(dr_state) == result'.op = "dr_access" /\ result'.from = dr_state

DrValue == result'.reply.v

AddressBits == 4 * (DrValue[2] + 2 * DrValue[3])

\* d >> 24 and (d >> 4) & 0xF of the last SELECT write
SelectedAp == Value(SubSeq(feed, 25, 32))

SelectedBank == Value(SubSeq(feed, 5, 8))

\* C23: after a SELECT write of d, an APACC update with address bits k
\* emits one event, READ_AP_REGISTER if DR bit 0 is set and else
\* WRITE_AP_REGISTER with DR bits 34..3 as value, with ap_num = d >> 24 and
\* reg = (((d >> 4) & 0xF) << 4) | k.
C23_ApAccessUsesSelect ==
    [][Accessed("APACC") /\ feed # <<>> =>
        /\ result'.exc = "none"
        /\ events' = <<[cb |-> "debug", dr_state |-> "", ir |-> NoArg,
                        dr |-> IF DrValue[1] = 1 THEN <<>>
                               ELSE SubSeq(DrValue, 4, 35),
                        command |-> IF DrValue[1] = 1 THEN "READ_AP_REGISTER"
                                    ELSE "WRITE_AP_REGISTER",
                        reg |-> 16 * SelectedBank + AddressBits,
                        ap_num |-> SelectedAp]>>
      ]_vars

\* SELECT was written 0x00000013, then 0x00112233 was written to AP 0
\* register 0x1C
C23_Witness ==
    /\ result.op = "dr_access" /\ result.from = "APACC"
    /\ feed = Word32(0, 0, 0, 19)
    /\ Len(events) = 1
    /\ events[1].command = "WRITE_AP_REGISTER"
    /\ events[1].ap_num = 0 /\ events[1].reg = 28
    /\ events[1].dr = Word32(0, 17, 34, 51)

\* C24: apsel, apbanksel and dpbanksel are changed only by a DPACC write with
\* A = 8, which sets apsel = datain >> 24, dpbanksel = datain & 0xF and
\* apbanksel = (datain >> 4) & 0xF and emits no event; every other access
\* leaves the three fields unchanged.
C24_SelectWriteOnly ==
    [][result'.op = "dr_access" =>
        IF Accessed("DPACC") /\ AddressBits = 8 /\ DrValue[1] = 0
        THEN /\ result'.exc = "none"
             /\ events' = <<>>
             /\ jtag_model'.debug =
                    [apsel |-> Value(SubSeq(DrValue, 28, 35)),
                     dpbanksel |-> Value(SubSeq(DrValue, 4, 7)),
                     apbanksel |-> Value(SubSeq(DrValue, 8, 11))]
        ELSE jtag_model'.debug = jtag_model.debug
      ]_vars

\* SELECT was just written 0x00000013
C24_Witness ==
    /\ result.op = "dr_access" /\ result.from = "DPACC" /\ result.exc = "none"
    /\ result.reply.v = <<0, 0, 1>> \o Word32(0, 0, 0, 19)
    /\ jtag_model.debug = [apsel |-> 0, apbanksel |-> 1, dpbanksel |-> 3]
    /\ events = <<>>

\* C25: a DPACC write of DPIDR (A = 0) or RDBUFF (A = 0xC) and a DPACC read
\* of SELECT (A = 8) fail without an event and without a change of the three
\* fields; a read with A = 0 or A = 0xC emits READ_DP_REGISTER with reg = A
\* whatever dpbanksel is; A = 4 emits READ_DP_REGISTER or WRITE_DP_REGISTER
\* with reg = (dpbanksel << 4) | 4.
C25_DpRegisterDirections ==
    [][Accessed("DPACC") =>
        IF AddressBits = 4
        THEN /\ result'.exc = "none"
             /\ Len(events') = 1
             /\ events'[1].command = IF DrValue[1] = 1 THEN "READ_DP_REGISTER"
                                     ELSE "WRITE_DP_REGISTER"
             /\ events'[1].reg = 16 * jtag_model.debug.dpbanksel + 4
        ELSE IF (AddressBits = 8) = (DrValue[1] = 1)
        THEN /\ result'.exc = "AssertionError"
             /\ events' = <<>>
             /\ jtag_model'.debug = jtag_model.debug
        ELSE AddressBits # 8 =>
             /\ result'.exc = "none"
             /\ Len(events') = 1
             /\ events'[1].command = "READ_DP_REGISTER"
             /\ events'[1].reg = AddressBits
      ]_vars

\* RDBUFF was read while dpbanksel is 3
C25_Witness ==
    /\ result.op = "dr_access" /\ result.from = "DPACC" /\ result.exc = "none"
    /\ jtag_model.debug.dpbanksel = 3
    /\ Len(events) = 1
    /\ events[1].command = "READ_DP_REGISTER" /\ events[1].reg = 12

(***************************************************************************)
(* Properties of the MEM-AP model (SpecMemAp).                             *)
(***************************************************************************)
MemApStep(ops, regs) == result'.op \in ops /\ result'.reg \in regs

MemApOps == {"read_register", "write_register"}

\* the address of a returned string as 16 hexadecimal digits
Reported(ret) == Zeros(16 - Len(ret.v.address)) \o ret.v.address

\* C26: with auto-increment Single and width w, the k-th DRW access after
\* the writes that set the 64-bit address a reports (a + (k-1) * w) mod 2^64,
\* the carry out of TAR[31:0] going into TAR[63:32]; with auto-increment Off
\* every DRW access reports a and leaves TAR unchanged.
C26_DrwAutoIncrement ==
    [][/\ MemApStep(MemApOps, {DRW})
       /\ mem_ap.tar_low # NoTar
       /\ mem_ap.auto_increment \in {Off, Single}
       => /\ result'.exc = "none"
          /\ result'.ret.some
          /\ Reported(result'.ret) =
                 Hex(IF mem_ap.auto_increment = Single
                     THEN AddBits(feed.a, feed.k * mem_ap.width)
                     ELSE feed.a, 16)
          /\ mem_ap.auto_increment = Off => Tar(mem_ap') = Tar(mem_ap)
      ]_vars

\* CSW 0x12 and TAR 0x10000000 were written, and the second DRW access since
\* was a read at 0x10000004
C26_Witness ==
    /\ result.op = "read_register" /\ result.reg = DRW /\ result.exc = "none"
    /\ mem_ap.width = 4 /\ mem_ap.auto_increment = Single
    /\ feed.a = Word32(16, 0, 0, 0) \o Zeros(32) /\ feed.k = 2
    /\ result.ret.v.address = <<1, 0, 0, 0, 0, 0, 0, 4>>

\* the fields of a CSW word: Size, AddrInc and bits 11..8
SizeCode(value) == value[1] + 2 * value[2] + 4 * value[3]

AddrIncCode(value) == value[5] + 2 * value[6]

BarrierBits(value) == <<value[9], value[10], value[11], value[12]>>

\* C27: a CSW write fails for the size codes 6 and 7 and for AddrInc code 3;
\* otherwise it sets width = 2^size bytes and auto-increment = AddrInc
\* (0 Off, 1 Single, 2 Packed), and then, if any of bits 11..8 is set, fails
\* as not implemented with the width and auto-increment already replaced.
C27_CswDecode ==
    [][MemApStep({"write_register"}, {CSW}) =>
        IF SizeCode(result'.value) \in {6, 7}
        THEN result'.exc = "AssertionError"
        ELSE IF AddrIncCode(result'.value) = 3
        THEN result'.exc = "ValueError"
        ELSE /\ mem_ap'.width = 2 ^ SizeCode(result'.value)
             /\ mem_ap'.auto_increment = AddrIncCode(result'.value)
             /\ result'.exc = IF BarrierBits(result'.value) = <<0, 0, 0, 0>>
                              THEN "none" ELSE "NotImplementedError"
      ]_vars

\* CSW 0x221 was refused as not implemented and left width 2 and Packed
C27_Witness ==
    /\ result.op = "write_register" /\ result.reg = CSW
    /\ result.value = Bits(545, 32)
    /\ result.exc = "NotImplementedError"
    /\ mem_ap.width = 2 /\ mem_ap.auto_increment = Packed

\* (TAR & ~0xF) | offset on the 64 bits of TAR, for the register BD0 + offset
BankedTarget(ap, r) == Bits(r - BD0, 4) \o SubSeq(Tar(ap), 5, 64)

\* C28: a BD0..BD3 read or write reports the address (TAR & ~0xF) | offset,
\* offset 0x0, 0x4, 0x8, 0xC, of the 64-bit TAR (TAR_HIGH << 32) | TAR_LOW,
\* upper 32 bits included; it fails unless width is 4; it never changes TAR.
C28_BankedAddress ==
    [][MemApStep(MemApOps, {BD0, BD1, BD2, BD3}) /\ mem_ap.tar_low # NoTar =>
        /\ Tar(mem_ap') = Tar(mem_ap)
        /\ IF mem_ap.width = 4
           THEN /\ result'.exc = "none"
                /\ result'.ret.some
                /\ Reported(result'.ret) = Hex(BankedTarget(mem_ap, result'.reg), 16)
           ELSE result'.exc = "AssertionError"
      ]_vars

C30_ReadResultOnlyForAccesses ==
    [][MemApStep(MemApOps, ArmMemApRegister) /\ result'.exc = "none" =>
        /\ result'.reg \in {CSW, TAR} => result'.ret = None
        /\ result'.ret.some => result'.reg \in {DRW, BD0, BD1, BD2, BD3}
      ]_vars

(***************************************************************************)
(* Properties of the AP output grouper and the JTAG-AP (SpecGrouper).      *)
(***************************************************************************)
IsApCommand(c) == c.command \in {"READ_AP_REGISTER", "WRITE_AP_REGISTER"}

\* the AP access lines of a list of lines, and the line of an AP command
AccessLines(ls) ==
    SelectSeq(ls, LAMBDA l : l.text \in
        {"set ap_reg_value [$_CHIPNAME.dap apreg {} {}]",
         "$_CHIPNAME.dap apreg {} {} {}"})

AccessLineOf(c) ==
    [text |-> IF c.command = "READ_AP_REGISTER"
              THEN "set ap_reg_value [$_CHIPNAME.dap apreg {} {}]"
              ELSE "$_CHIPNAME.dap apreg {} {} {}",
     ap_num |-> c.ap_num, reg |-> Hex(Bits(c.reg, 8), 2),
     value |-> IF c.command = "READ_AP_REGISTER" THEN <<>> ELSE Hex(c.dr, 8),
     result |-> None]

AccessesMade ==
    [i \in 1..Len(SelectSeq(events, IsApCommand)) |->
        AccessLineOf(SelectSeq(events, IsApCommand)[i])]

\* C31: the lines of the AP accesses made are, once each and in the order
\* of the accesses, the access lines written to the file followed by the
\* pending ones; an access whose AP model returns None only adds its line
\* to the pending ones, and an access, read or write, that returns a result
\* writes the header and the pending lines and leaves none pending.
C31_GroupWrittenOnce ==
    /\ [](AccessLines(dap_output.f) \o dap_output.lines = AccessesMade)
    /\ [][result'.op = "callback" /\ result'.exc = "none"
            /\ IsApCommand(result'.command) =>
          IF result'.ret.some
          THEN /\ dap_output'.lines = <<>>
               /\ Len(dap_output'.f) = Len(dap_output.f)
                                       + Len(dap_output.lines) + 3
          ELSE /\ dap_output'.f = dap_output.f
               /\ Len(dap_output'.lines) = Len(dap_output.lines) + 1
         ]_vars

\* a callback step that accessed the JTAG-AP, arm_aps[2]
JtagApStep(command) ==
    /\ result'.op = "callback"
    /\ result'.command.command = command
    /\ result'.command.ap_num = 2

JtagApDone == result'.exc = "none" /\ result'.ret.some

\* C32: the JTAG-AP model returns a result string for a read of CSW or IDR
\* and for a write of CSW or PSEL; a read of any other register and a write
\* of any other register, IDR included, fail as not implemented.
C32_JtagApRegisters ==
    [][/\ JtagApStep("READ_AP_REGISTER") =>
            IF result'.command.reg \in {CSW, IDR} THEN JtagApDone
            ELSE result'.exc = "NotImplementedError"
       /\ JtagApStep("WRITE_AP_REGISTER") =>
            IF result'.command.reg \in {CSW, PSEL} THEN JtagApDone
            ELSE result'.exc = "NotImplementedError"
      ]_vars

\* a write of PSEL returned its result string
C32_Witness ==
    /\ result.op = "callback" /\ result.exc = "none"
    /\ result.command.command = "WRITE_AP_REGISTER"
    /\ result.command.ap_num = 2 /\ result.command.reg = PSEL
    /\ result.ret.some /\ result.ret.v.text = "Write JTAG-AP PSEL"

\* C32 as stated: reads and writes of CSW and IDR succeed, reads and writes
\* of every other register fail as not implemented.
C32_OnlyCswIdr ==
    [][JtagApStep("READ_AP_REGISTER") \/ JtagApStep("WRITE_AP_REGISTER") =>
            IF result'.command.reg \in {CSW, IDR} THEN JtagApDone
            ELSE result'.exc = "NotImplementedError"
      ]_vars

(***************************************************************************)
(* Properties of the capture reader (SpecReader).                          *)
(***************************************************************************)
RxRead == result'.op = "read"

RxIn == result'.in_data

\* the bytes the record added to the reply buffer
RxOut == SubSeq(ftdi_replies'.buf, Len(ftdi_replies.buf) + 1, Len(ftdi_replies'.buf))

\* C33: of an RX payload of 513 bytes the reader keeps the first 512 and
\* drops the last one, which stands where the modem status begins; of a
\* payload of 515 bytes it keeps the first 512, strips the next 2 and keeps
\* the last 1.
C33_Payload513 ==
    [][/\ RxRead /\ Len(RxIn) = 513 => RxOut = SubSeq(RxIn, 1, 512)
       /\ RxRead /\ Len(RxIn) = 515 =>
            RxOut = SubSeq(RxIn, 1, 512) \o <<RxIn[515]>>
      ]_vars

\* a payload of 513 bytes was read and 512 bytes were kept
C33_Witness ==
    /\ result.op = "read" /\ Len(result.in_data) = 513
    /\ Len(ftdi_replies.buf) = 512
    /\ ftdi_replies.buf[512] = 511 % 251

\* C33 as stated: of 513 bytes the first 512 and the last 1 are kept.
C33_KeepsLastOf513 ==
    [][RxRead /\ Len(RxIn) = 513 =>
            RxOut = SubSeq(RxIn, 1, 512) \o <<RxIn[513]>>
      ]_vars

\* the offsets i of a payload of L bytes with (i mod 514) < 512, in order:
\* their number, and the k-th of them
KeptCount(L) == (L \div 514) * 512 + (IF L % 514 < 512 THEN L % 514 ELSE 512)

KeptOffset(k) == ((k - 1) \div 512) * 514 + ((k - 1) % 512)

\* C34: for a payload of L >= 1 bytes the reader appends, as one batch with
\* frame = record index + 1, exactly the bytes at the offsets i with
\* (i mod 514) < 512, in order; a payload of at most 512 bytes is appended
\* unchanged.
C34_ModemStatusStripped ==
    [][RxRead =>
        /\ RxOut = [k \in 1..KeptCount(Len(RxIn)) |-> RxIn[KeptOffset(k) + 1]]
        /\ Len(RxIn) <= 512 => RxOut = RxIn
        /\ ftdi_replies' = Extend(ftdi_replies, RxOut, frame_idx + 1)
        /\ ftdi_replies'.frames =
               Put(ftdi_replies.frames, frame_idx + 1,
                   <<Len(ftdi_replies.buf), Len(ftdi_replies'.buf)>>)
      ]_vars

\* the second record carried 1029 bytes: two chunks, two status pairs
\* stripped and the last byte kept
C34_Witness ==
    /\ result.op = "read" /\ Len(result.in_data) = 1029
    /\ frame_idx = 2
    /\ Len(ftdi_replies.buf) = 1025
    /\ ftdi_replies.buf[513] = 514 % 251
    /\ ftdi_replies.buf[1025] = 1028 % 251

(***************************************************************************)
(* Properties of the replay of a command on the FSM (SpecSim).             *)
(***************************************************************************)
Ran35 == result'.op = "run" /\ result'.exc = "none"

Cmd == result'.command

BitOf(byte, bit) == (byte \div 2 ^ bit) % 2

IsBitwise(command) == BitOf(command.opcode, 1) = 1

\* the <<tdi, tms>> the specification has a command present, clock by clock
PresentedPins(command) ==
    IF command.type = CLOCK_TMS
    THEN [k \in 1..command.length |->
             <<BitOf(command.data.v[1], 7), BitOf(command.data.v[1], k - 1)>>]
    ELSE IF command.type = CLOCK_TDI /\ IsBitwise(command)
    THEN [k \in 1..command.length |-> <<BitOf(command.data.v[1], k - 1), 0>>]
    ELSE IF command.type = CLOCK_TDI
    THEN [k \in 1..(8 * Len(command.data.v)) |->
             <<BitOf(command.data.v[(k + 7) \div 8], (k - 1) % 8), 0>>]
    ELSE IF command.type = CLOCK_TDO /\ IsBitwise(command)
    THEN [k \in 1..command.length |-> <<1, 0>>]
    ELSE IF command.type = CLOCK_TDO
    THEN [k \in 1..(8 * command.length) |-> <<1, 0>>]
    ELSE <<>>

\* the state the IEEE 1149.1 diagram reaches from s by the TMS of pins, and
\* the hooks with their tdi that the clocks taken on the way invoke
RECURSIVE StateAfter(_, _)
StateAfter(s, pins) ==
    IF pins = <<>> THEN s
    ELSE StateAfter(Ieee1149Successor(s, Head(pins)[2]), Tail(pins))

RECURSIVE HooksAlong(_, _)
HooksAlong(s, pins) ==
    IF pins = <<>> THEN <<>>
    ELSE (IF HookOfState(s, Head(pins)[1], 0) = <<>> THEN <<>>
          ELSE <<<<HookOfState(s, Head(pins)[1], 0)[1].hook,
                   HookOfState(s, Head(pins)[1], 0)[1].tdi>>>>)
         \o HooksAlong(Ieee1149Successor(s, Head(pins)[2]), Tail(pins))

\* C35: a command that run_ftdi_command replays takes the FSM through
\* exactly the clocks the specification names: length clocks for a bitwise
\* CLOCK_TMS, CLOCK_TDI or CLOCK_TDO, 8 per data byte for a byte-mode
\* CLOCK_TDI, 8 * length for a byte-mode CLOCK_TDO, none for any other
\* command; CLOCK_TMS with the bits of data[0] as TMS, LSB first, and bit 7
\* as TDI, CLOCK_TDI with the data bits as TDI, LSB first, and TMS 0,
\* CLOCK_TDO with TDI 1 and TMS 0.
C35_ClocksOfCommand ==
    [][Ran35 =>
        /\ state' = StateAfter(state, PresentedPins(Cmd))
        /\ [i \in 1..Len(calls') |-> <<calls'[i].hook, calls'[i].tdi>>]
              = HooksAlong(state, PresentedPins(Cmd))
        /\ Cmd.type \notin {CLOCK_TMS, CLOCK_TDI, CLOCK_TDO} =>
              state' = state /\ last_tdo' = last_tdo /\ calls' = <<>>
      ]_vars

\* opcode 0x4B, length 5, data 0x1F replayed in RESET: five clocks, each
\* invoking reset, and the FSM still in RESET
C35_Witness ==
    /\ result.op = "run" /\ result.exc = "none"
    /\ result.command.opcode = 75 /\ result.command.length = 5
    /\ result.command.data = Some(<<31>>)
    /\ result.from = "RESET" /\ state = "RESET"
    /\ calls = [i \in 1..5 |-> Call("reset", NoArg, NoArg)]


\* the TDO the clocks of pins return one after the other, from state s with
\* last_tdo last: what the shift hook of the clock returned (the next of cs,
\* the hooks invoked) in DRSHIFT and IRSHIFT, the TDO before elsewhere
RECURSIVE TdoAlong(_, _, _, _)
TdoAlong(s, last, pins, cs) ==
    IF pins = <<>> THEN <<>>
    ELSE IF StoresTdo(s)
    THEN <<Head(cs).ret>>
         \o TdoAlong(Ieee1149Successor(s, Head(pins)[2]), Head(cs).ret,
                     Tail(pins), Tail(cs))
    ELSE <<last>>
         \o TdoAlong(Ieee1149Successor(s, Head(pins)[2]), last, Tail(pins),
                     IF HookOfState(s, 0, 0) = <<>> THEN cs ELSE Tail(cs))

\* bits packed 8 to a byte, bit i of a byte being the i-th of its 8
PackedLsbFirst(bits) ==
    [j \in 1..((Len(bits) + 7) \div 8) |->
        LET Weight(i) == IF 8 * (j - 1) + i + 1 <= Len(bits)
                         THEN bits[8 * (j - 1) + i + 1] * 2 ^ i ELSE 0
        IN  Weight(0) + Weight(1) + Weight(2) + Weight(3)
            + Weight(4) + Weight(5) + Weight(6) + Weight(7)]

IsReading(command) == BitOf(command.opcode, 5) = 1

Delivered(h) ==
    /\ result'.op = "clock" /\ ~pins_locked
    /\ calls' # <<>> /\ calls'[1].hook = h

InIrScan == {"IRSHIFT", "IREXIT1", "IRPAUSE", "IREXIT2", "IRUPDATE"}

DapWidth(dap_state) ==
    CASE dap_state = "BYPASS" -> 1
      [] dap_state = "IDCODE" -> 32
      [] dap_state \in {"ABORT", "DPACC", "APACC"} -> 35
      [] OTHER -> 0

\* the DR of each TAP is the register of its selected DrState
DrOfSelected(M) ==
    /\ IF M.ps.dr_state = "CFG_IN" THEN M.ps.dr.kind = "sink"
       ELSE /\ M.ps.dr.kind = "shift"
            /\ M.ps.dr.width = WidthTable(M.ps.dr_state)
            /\ Len(M.ps.dr.data) = M.ps.dr.width
    /\ M.dap.dr.kind = "shift"
    /\ M.dap.dr.width = DapWidth(M.dap.dap_state)
    /\ Len(M.dap.dr.data) = M.dap.dr.width

\* in the transition table the states of scan are entered from outside by
\* the clock taken in capture only, and hooks their clocks deliver are of
\* the set allowed
ScanEnteredByCapture(scan, capture, allowed) ==
    /\ \A s \in JtagState \ scan, tms \in BIT :
           JTAG_STATE_TABLE[<<s, tms>>] \in scan => s = capture
    /\ \A s \in scan : HookName(s) \in allowed \cup {"none"}
    /\ \A s \in JtagState : HookName(s) \in allowed => s \in scan

\* C37: the FSM starts in RESET and the first hook the chain gets is
\* reset; shift_dr and update_dr are delivered only in the states of a DR
\* scan, which are entered only by the clock that delivers capture_dr and
\* in which neither update_ir nor reset is delivered, so that the DR each
\* TAP then shifts or reports is set, with the width of the TAP's selected
\* DrState; likewise shift_ir and update_ir are delivered only in the
\* states of an IR scan, which are entered only by the clock that delivers
\* capture_ir.
C37_CaptureBeforeShift ==
    /\ state = "RESET" /\ calls = <<>>
    /\ [][/\ state = "RESET" =>
               Delivered("reset") \/ (calls' = <<>> /\ state' = "RESET")
          /\ ScanEnteredByCapture(InDrScan, "DRCAPTURE",
                                  {"shift_dr", "update_dr"})
          /\ ScanEnteredByCapture(InIrScan, "IRCAPTURE",
                                  {"shift_ir", "update_ir"})
          /\ HookName("DRCAPTURE") = "capture_dr"
          /\ HookName("IRCAPTURE") = "capture_ir"
          /\ (Delivered("shift_dr") \/ Delivered("update_dr")) =>
               /\ state \in InDrScan
               /\ DrOfSelected(jtag_model)
               /\ result'.exc # "AttributeError"
          /\ (state' \in InDrScan /\ state \notin InDrScan) =>
               Delivered("capture_dr") /\ result'.exc = "none"
          /\ state \in InDrScan =>
               /\ ~Delivered("update_ir") /\ ~Delivered("reset")
               /\ ~Delivered("capture_dr")
          /\ (Delivered("shift_ir") \/ Delivered("update_ir")) =>
               /\ state \in InIrScan
               /\ jtag_model.ps.ir.kind = "shift"
               /\ jtag_model.dap.ir.kind = "shift"
          /\ (state' \in InIrScan /\ state \notin InIrScan) =>
               Delivered("capture_ir") /\ result'.exc = "none"
          /\ state \in InIrScan => ~Delivered("capture_ir")
         ]_vars

\* a DR scan after an IR scan that selected DPACC on the enabled DAP and
\* JTAG_CTRL on the PS/PL: the clock in DRSHIFT shifted the 35-bit and the
\* 32-bit DR of the capture
C37_Witness ==
    /\ result.op = "clock" /\ result.exc = "none"
    /\ result.from = "DRSHIFT"
    /\ calls # <<>> /\ calls[1].hook = "shift_dr"
    /\ jtag_model.dap.dap_state = "DPACC"
    /\ jtag_model.dap.dr.width = 35
    /\ jtag_model.ps.dr_state = "JTAG_CTRL"
    /\ jtag_model.ps.dr.width = 32

(***************************************************************************)
(* TMS held at 1 (SpecSim).                                                *)
(***************************************************************************)
\* a CLOCK_TMS command all of whose clocks have TMS = 1
AllOnes(command) ==
    /\ command.type = CLOCK_TMS
    /\ \A k \in 0..(command.length - 1) : BitOf(command.data.v[1], k) = 1

ResetCall == Call("reset", NoArg, NoArg)

\* reset on the chain is reset on each TAP: the PS/PL TAP selects IDCODE
\* with no raw IR, the DAP commits will_enable
ResetsEveryTap(M) ==
    /\ JtagChain("reset", M, NoArg).exc = "none"
    /\ JtagChain("reset", M, NoArg).M.ps.dr_state = "IDCODE"
    /\ JtagChain("reset", M, NoArg).M.ps.captured_ir = NoArg
    /\ JtagChain("reset", M, NoArg).M.dap.has_enable
    /\ JtagChain("reset", M, NoArg).M.dap.enable = M.dap.will_enable
    /\ JtagChain("reset", M, NoArg).M.dap.dap_state
          = (IF M.dap.will_enable THEN "IDCODE" ELSE "BYPASS")

\* C38: replayed in any state of the TAP, a CLOCK_TMS command of n clocks
\* with TMS = 1 leaves the FSM in RESET if n >= 5, and in RESET if it was
\* in RESET whatever n; every clock of the command after the fifth, and
\* every clock of a command replayed in RESET, is taken in RESET and
\* invokes reset, which on the chain resets every TAP.
C38_FiveOnesReset ==
    [][(Ran35 /\ AllOnes(Cmd)) =>
        /\ Cmd.length >= 5 =>
              /\ state' = "RESET"
              /\ Len(calls') >= Cmd.length - 5
              /\ \A i \in 1..(Cmd.length - 5) :
                     calls'[Len(calls') + 1 - i] = ResetCall
        /\ state = "RESET" =>
              /\ state' = "RESET"
              /\ calls' = [i \in 1..Cmd.length |-> ResetCall]
        /\ \A M \in {jtag_model, ZynqJtagModel(TRUE), ZynqJtagModel(FALSE)} :
              ResetsEveryTap(M)
      ]_vars

\* seven clocks with TMS = 1 replayed in DRSHIFT: shift_dr, update_dr on the
\* way to RESET, and reset for the sixth and the seventh clock
C38_Witness ==
    /\ result.op = "run" /\ result.exc = "none"
    /\ result.command.opcode = 75 /\ result.command.length = 7
    /\ result.command.data = Some(<<127>>)
    /\ result.from = "DRSHIFT" /\ state = "RESET"
    /\ Len(calls) = 4
    /\ calls[1].hook = "shift_dr" /\ calls[2].hook = "update_dr"
    /\ calls[3] = ResetCall /\ calls[4] = ResetCall

(***************************************************************************)
(* Termination of decode_commands (SpecDecodeFair).                        *)
(***************************************************************************)
\* the step is an iteration of the main loop
LoopIteration == pc = "decode" /\ iter'.n = iter.n + 1

Ended == pc \in {"returned", "raised"}

\* C39: a call of decode_commands ends, by returning or by raising; each
\* iteration of its loop moves the TX cursor forward by at least one byte
\* and emits at most one command, no step moves a cursor backwards or past
\* the end of its buffer, the call leaves the content of the buffers as it
\* was, and the commands emitted are never more than the TX bytes consumed.
C39_DecodeTerminates ==
    /\ (pc = "decode") ~> Ended
    /\ [](pc \in {"decode", "returned", "raised"} =>
             /\ Len(ftdi_commands) <= ftdi_bytes.pop_index
             /\ ftdi_bytes.pop_index <= Len(ftdi_bytes.buf)
             /\ ftdi_replies.pop_index <= Len(ftdi_replies.buf))
    /\ [][/\ ftdi_bytes'.pop_index >= ftdi_bytes.pop_index
          /\ ftdi_replies'.pop_index >= ftdi_replies.pop_index
          /\ pc = "decode" =>
                /\ ftdi_bytes'.buf = ftdi_bytes.buf
                /\ ftdi_replies'.buf = ftdi_replies.buf
          /\ LoopIteration =>
                /\ ftdi_bytes'.pop_index >= ftdi_bytes.pop_index + 1
                /\ Len(ftdi_commands') <= Len(ftdi_commands) + 1
                /\ Len(ftdi_commands') >= Len(ftdi_commands)
          /\ Ended => UNCHANGED vars
         ]_vars

\* two iterations decoded two commands from five TX bytes and one RX byte,
\* and the call returned
C39_Witness ==
    /\ pc = "returned" /\ iter.n = 2
    /\ Len(ftdi_commands) = 2
    /\ ftdi_bytes.pop_index = Len(ftdi_bytes.buf)
    /\ ftdi_bytes.pop_index > 2
    /\ ftdi_replies.pop_index = Len(ftdi_replies.buf)
    /\ ftdi_replies.pop_index >= 1

(***************************************************************************)
(* The DAP stays armed (SpecZynq).                                         *)
(***************************************************************************)
Armed(M) == M.dap.will_enable

Enabled(M) == M.dap.has_enable /\ M.dap.enable

\* a DR update of JTAG_CTRL with bit 1 clear
ClearingUpdate ==
    /\ state = "DRUPDATE"
    /\ jtag_model.ps.dr_state = "JTAG_CTRL"
    /\ BitAt(jtag_model.ps.dr.data, 1) = 0

\* C40: no step clears will_enable once it is set; a DR update of
\* JTAG_CTRL with bit 1 clear leaves will_enable as it was; a clock taken
\* in RESET while armed enables the DAP, an enabled DAP is armed, and no
\* step, a later reset included, disables it.
C40_ArmedStaysArmed ==
    /\ [](Enabled(jtag_model) => Armed(jtag_model))
    /\ [][/\ Armed(jtag_model) => Armed(jtag_model')
          /\ Enabled(jtag_model) => Enabled(jtag_model')
          /\ (ClockReturned /\ ClearingUpdate) =>
                Armed(jtag_model') = Armed(jtag_model)
          /\ (ClockReturned /\ state = "RESET" /\ Armed(jtag_model)) =>
                Enabled(jtag_model')
         ]_vars

\* armed and enabled, JTAG_CTRL was updated with bit 1 clear: the DAP is
\* still armed and enabled
C40_Witness ==
    /\ result.op = "clock" /\ result.from = "DRUPDATE" /\ result.exc = "none"
    /\ jtag_model.ps.dr_state = "JTAG_CTRL"
    /\ jtag_model.ps.dr.data = Zeros(32)
    /\ Armed(jtag_model) /\ Enabled(jtag_model)
    /\ Len(events) >= 1 /\ events[1].cb = "ps_dr"
    /\ events[1].dr_state = "JTAG_CTRL"

=============================================================================
